---- MODULE Spec2Model ----
(***************************************************************************)
(* A model of the AI-Quiz application (src/final.py, src/app.py): the      *)
(* parser of generated multiple-choice text, the section parser of the     *)
(* generated analyses and the statistics derived from the quiz history.    *)
(* Text is a sequence of one-character strings, so that the regular        *)
(* expressions and the string methods of the source are computed           *)
(* character by character.                                                 *)
(***************************************************************************)
EXTENDS Integers, Sequences, FiniteSets, TLC

VARIABLES
    response,        \* the payload handed to parse_mcq_response: [shape, text]
    rendered,        \* the question list the text was rendered from (<<>> if built raw)
    nlines,          \* number of raw lines appended to the text so far
    mcq_pc,          \* "build" | "parsed"
    mcq_impl,        \* which file's parse_mcq_response ran: "none" | "app" | "final"
    mcq_raised,      \* TRUE iff the call ended by an exception leaving the function
    questions,       \* the list returned by parse_mcq_response
    sec_fn,          \* the analysis function running: "quiz" | "user" | "topic"
    analysis_lines,  \* the lines of analysis_text the loop has read so far
    sections,        \* the dict sections (a key holding <<>> is absent)
    current_section, \* the loop's current_section (None or a key)
    section_content, \* the loop's section_content
    sec_pc,          \* "loop" | "done" (success returned) | "error" (except branch)
    quiz_history,    \* quiz_history_collection: the attempt documents, in insertion order
    clock,           \* datetime.now(), in minutes
    n_submitted,     \* number of attempts submitted in this run
    topic_stats_cache, \* st.cache_data entry of get_quiz_stats_by_topic (NoEntry if none)
    stats_ret,       \* what the most recent statistics call returned
    sess_impl,       \* the program the session runs: "final" | "app"
    session_user,    \* st.session_state.user_id (None when logged out)
    current_quiz,    \* st.session_state.current_quiz (NoQuiz for None)
    user_answers,    \* st.session_state.user_answers: question index -> letter
    quiz_score,      \* st.session_state.quiz_score (NoScore for None)
    show_explanations, \* st.session_state.show_explanations
    started,         \* start_time of every quiz start_quiz has started
    submitted,       \* start_time of every quiz submit_quiz returned success for
    api_impl,        \* the program whose call_gemini_api runs: "final" | "app"
    api_caller,      \* the call path the request is made on
    api_pc,          \* "idle" | "loop" | "returned" | "raised" | "handled"
    api_attempt,     \* the loop variable attempt of call_gemini_api
    api_log,         \* what the call did so far: requests, sleeps, st.error calls
    api_ret,         \* what call_gemini_api returned: "payload" or None
    ui_failure,      \* a failure message for the request is on the page
    browser_user_id, \* st.session_state.user_id of each browser session (None: logged out)
    history_cache,   \* what st.cache_data holds for get_user_quiz_history()
    history_ret,     \* the last return of get_user_quiz_history and its session
    logged_in,       \* st.session_state.logged_in
    username,        \* st.session_state.username
    role,            \* st.session_state.role
    generated_questions, \* st.session_state.generated_questions with current_topic, and who generated them
    selected_question_id, \* st.session_state.selected_question_id
    editing_question,     \* st.session_state.editing_question
    selected_quiz_history, \* app.py: st.session_state.selected_quiz_history
    reg_impl,        \* the program whose register_user runs: "final" | "app"
    users,           \* users_collection: the documents, by username
    reg_pc,          \* of each session's register_user call: "idle" | "checked" | "done"
    reg_args,        \* the username and the password's validity of each session's call
    reg_ret,         \* what each session's call returned: None | "success" | "failure"
    reg_calls,       \* number of register_user calls made
    question_docs,   \* questions_collection: the documents, in insertion order
    n_saved,         \* number of questions save_questions_to_db has inserted (the next _id)
    n_updates        \* number of update_question calls made

mcq_vars == <<response, rendered, nlines, mcq_pc, mcq_impl, mcq_raised, questions>>

sec_vars == <<sec_fn, analysis_lines, sections, current_section, section_content, sec_pc>>

stat_vars == <<quiz_history, clock, n_submitted, topic_stats_cache, stats_ret>>

sess_vars == <<sess_impl, session_user, current_quiz, user_answers, quiz_score,
               show_explanations, started, submitted>>

api_vars == <<api_impl, api_caller, api_pc, api_attempt, api_log, api_ret, ui_failure>>

hist_vars == <<browser_user_id, history_cache, history_ret>>

acct_vars == <<logged_in, username, role, generated_questions, selected_question_id,
               editing_question, selected_quiz_history>>

reg_vars == <<reg_impl, users, reg_pc, reg_args, reg_ret, reg_calls>>

qdb_vars == <<question_docs, n_saved, n_updates>>

rest_vars == <<hist_vars, acct_vars, reg_vars, qdb_vars>>

vars == <<mcq_vars, sec_vars, stat_vars, sess_vars, api_vars, rest_vars>>

(***************************************************************************)
(* Bounds of the model.                                                    *)
(***************************************************************************)
MaxLines == 4
MaxQuestions == 2

(***************************************************************************)
(* Characters and the string methods the source uses.                      *)
(***************************************************************************)
None == "None"

SetMin(S) == CHOOSE x \in S : \A y \in S : x <= y
SetMax(S) == CHOOSE x \in S : \A y \in S : x >= y

IsSpace(c) == c \in {" ", "\n", "\t"}
IsDigit(c) == c \in {"0", "1", "2", "3", "4", "5", "6", "7", "8", "9"}

UpperCase ==
    <<"A", "B", "C", "D", "E", "F", "G", "H", "I", "J", "K", "L", "M",
      "N", "O", "P", "Q", "R", "S", "T", "U", "V", "W", "X", "Y", "Z">>

LowerCase ==
    <<"a", "b", "c", "d", "e", "f", "g", "h", "i", "j", "k", "l", "m",
      "n", "o", "p", "q", "r", "s", "t", "u", "v", "w", "x", "y", "z">>

UpperToLower ==
    [c \in {UpperCase[i] : i \in 1..26} |->
        LowerCase[CHOOSE i \in 1..26 : UpperCase[i] = c]]

LowerChar(c) == IF c \in DOMAIN UpperToLower THEN UpperToLower[c] ELSE c

\* str.lower()
Lower(s) == [i \in 1..Len(s) |-> LowerChar(s[i])]

\* str.strip()
Strip(s) ==
    LET keep == {i \in 1..Len(s) : ~IsSpace(s[i])}
    IN  IF keep = {} THEN <<>> ELSE SubSeq(s, SetMin(keep), SetMax(keep))

\* sub in s
Contains(s, sub) ==
    \E i \in 1..(Len(s) - Len(sub) + 1) : SubSeq(s, i, i + Len(sub) - 1) = sub

\* s.startswith(pre)
StartsWith(s, pre) == Len(s) >= Len(pre) /\ SubSeq(s, 1, Len(pre)) = pre

\* s.replace(c, '')
RECURSIVE RemoveChar(_, _)
RemoveChar(s, c) ==
    IF s = <<>> THEN <<>>
    ELSE IF Head(s) = c THEN RemoveChar(Tail(s), c)
    ELSE <<Head(s)>> \o RemoveChar(Tail(s), c)

\* s.split('\n')
RECURSIVE SplitLines(_)
SplitLines(s) ==
    LET nl == {i \in 1..Len(s) : s[i] = "\n"}
    IN  IF nl = {} THEN <<s>>
        ELSE LET i == SetMin(nl)
             IN  <<SubSeq(s, 1, i - 1)>> \o SplitLines(SubSeq(s, i + 1, Len(s)))

\* first index >= i of s that holds no whitespace (Len(s)+1 if none): a greedy \s*
SkipSpace(s, i) ==
    LET rest == {j \in i..Len(s) : ~IsSpace(s[j])}
    IN  IF rest = {} THEN Len(s) + 1 ELSE SetMin(rest)

\* first index >= i of s that holds no digit (Len(s)+1 if none): a greedy \d*
SkipDigits(s, i) ==
    LET rest == {j \in i..Len(s) : ~IsDigit(s[j])}
    IN  IF rest = {} THEN Len(s) + 1 ELSE SetMin(rest)

(***************************************************************************)
(* parse_mcq_response: the split into blocks.                              *)
(***************************************************************************)
\* The character class [\.|\)] of both patterns: '.', '|' and ')'.
IsMarkPunct(c) == c \in {".", "|", ")"}

\* r'\n\s*\d+[\.|\)]\s*' matched at index i of s: the index after the match, 0 if
\* there is none.  \s, \d and the class are disjoint, so the greedy match is the
\* only one.
QuestionMarkEnd(s, i) ==
    IF s[i] # "\n" THEN 0
    ELSE LET j == SkipSpace(s, i + 1)
             k == SkipDigits(s, j)
         IN  IF k > j /\ k <= Len(s) /\ IsMarkPunct(s[k])
             THEN SkipSpace(s, k + 1)
             ELSE 0

\* re.split(r'\n\s*\d+[\.|\)]\s*', s)
RECURSIVE ReSplit(_)
ReSplit(s) ==
    LET hits == {i \in 1..Len(s) : QuestionMarkEnd(s, i) # 0}
    IN  IF hits = {} THEN <<s>>
        ELSE LET i == SetMin(hits)
             IN  <<SubSeq(s, 1, i - 1)>>
                   \o ReSplit(SubSeq(s, QuestionMarkEnd(s, i), Len(s)))

\* question_blocks[1:] of re.split(..., '\n' + text)
QuestionBlocks(text) == Tail(ReSplit(<<"\n">> \o text))

(***************************************************************************)
(* parse_mcq_response: one block.                                          *)
(***************************************************************************)
OptionLetters == {"a", "b", "c", "d"}

kCorrect == <<"c", "o", "r", "r", "e", "c", "t">>

\* option_pattern.match(line) for r'^([a-d])[\.|\)]?\s+(.+)$' with re.IGNORECASE,
\* on a stripped line: the index where group 2 starts, 0 if the line does not
\* match.  The optional punctuation is taken when present (without it \s+ would
\* have to match the punctuation itself), and \s+ takes all the whitespace.
OptionTextStart(line) ==
    IF Len(line) < 3 \/ LowerChar(line[1]) \notin OptionLetters THEN 0
    ELSE LET p == IF IsMarkPunct(line[2]) THEN 3 ELSE 2
             q == SkipSpace(line, p)
         IN  IF q > p /\ q <= Len(line) THEN q ELSE 0

\* '*' in option_text, alone
IsMarkedByAsterisk(option_text) == Contains(option_text, <<"*">>)

\* '*' in option_text or 'correct' in option_text.lower()
IsMarkedCorrect(option_text) ==
    Contains(option_text, <<"*">>) \/ Contains(Lower(option_text), kCorrect)

\* The pass of the loop that keeps the first marker it met.
OptionStepFirstMarker(acc, raw_line) ==
    LET line == Strip(raw_line)
        q == OptionTextStart(line)
    IN  IF line = <<>> \/ q = 0 THEN acc
        ELSE LET option_letter == LowerChar(line[1])
                 captured == Strip(SubSeq(line, q, Len(line)))
                 marked == IsMarkedCorrect(captured)
                 option_text == IF marked THEN Strip(RemoveChar(captured, "*"))
                                ELSE captured
             IN  [options |-> Append(acc.options,
                                     [letter |-> option_letter, text |-> option_text]),
                  correct_option |-> IF marked /\ acc.correct_option = None
                                     THEN option_letter
                                     ELSE acc.correct_option]

\* One pass of the loop over lines[1:], from the state acc = [options, correct_option].
OptionStep(acc, raw_line) ==
    LET line == Strip(raw_line)
        q == OptionTextStart(line)
    IN  IF line = <<>> \/ q = 0 THEN acc
        ELSE LET option_letter == LowerChar(line[1])
                 captured == Strip(SubSeq(line, q, Len(line)))
                 marked == IsMarkedCorrect(captured)
                 option_text == IF marked THEN Strip(RemoveChar(captured, "*"))
                                ELSE captured
             IN  [options |-> Append(acc.options,
                                     [letter |-> option_letter, text |-> option_text]),
                  correct_option |-> IF marked THEN option_letter
                                     ELSE acc.correct_option]

RECURSIVE OptionLoop(_, _)
OptionLoop(acc, lines) ==
    IF lines = <<>> THEN acc
    ELSE OptionLoop(OptionStep(acc, Head(lines)), Tail(lines))

\* ParseBlock without the test of correct_option in the emitting condition.
ParseBlockNoMarkerTest(block) ==
    IF Strip(block) = <<>> THEN <<>>
    ELSE LET lines == SplitLines(Strip(block))
             question_text == Strip(lines[1])
             acc == OptionLoop([options |-> <<>>, correct_option |-> None], Tail(lines))
         IN  IF question_text # <<>> /\ acc.options # <<>>
             THEN <<[question |-> question_text,
                     options |-> acc.options,
                     correct_option |-> acc.correct_option]>>
             ELSE <<>>

\* The body of "for block in question_blocks[1:]": the list of questions the block
\* adds (empty or one question).
ParseBlock(block) ==
    IF Strip(block) = <<>> THEN <<>>
    ELSE LET lines == SplitLines(Strip(block))
             question_text == Strip(lines[1])
             acc == OptionLoop([options |-> <<>>, correct_option |-> None], Tail(lines))
         IN  IF question_text # <<>> /\ acc.options # <<>> /\ acc.correct_option # None
             THEN <<[question |-> question_text,
                     options |-> acc.options,
                     correct_option |-> acc.correct_option]>>
             ELSE <<>>

RECURSIVE ParseBlocks(_)
ParseBlocks(blocks) ==
    IF blocks = <<>> THEN <<>>
    ELSE ParseBlock(Head(blocks)) \o ParseBlocks(Tail(blocks))

\* The parsing of the extracted text (final.py 158-206, app.py 89-137).
ParseMcqText(text) == ParseBlocks(QuestionBlocks(text))

(***************************************************************************)
(* parse_mcq_response on a response payload.  The payload's shape is what  *)
(* the text-generation service returned:                                   *)
(*   "none"             None (call_gemini_api gave up)                     *)
(*   "no_candidates"    a dict without the key 'candidates'                *)
(*   "empty_candidates" 'candidates' is an empty list                      *)
(*   "no_content"       the first candidate has no 'content' (blocked)     *)
(*   "text"             the first candidate carries the text               *)
(***************************************************************************)
ResponseShapes == {"none", "no_candidates", "empty_candidates", "no_content", "text"}

\* response['candidates'][0]['content']['parts'][0]['text'] raises IndexError or
\* KeyError on these shapes.
ExtractRaises(resp) == resp.shape \in {"empty_candidates", "no_content"}

\* final.py: the extraction and the parsing sit in try/except, which returns [].
parse_mcq_response(resp) ==
    IF resp.shape \in {"none", "no_candidates"} THEN [raised |-> FALSE, questions |-> <<>>]
    ELSE IF ExtractRaises(resp) THEN [raised |-> FALSE, questions |-> <<>>]
    ELSE [raised |-> FALSE, questions |-> ParseMcqText(resp.text)]

\* app.py: no try/except, the exception of the extraction leaves the function.
parse_mcq_response_app(resp) ==
    IF resp.shape \in {"none", "no_candidates"} THEN [raised |-> FALSE, questions |-> <<>>]
    ELSE IF ExtractRaises(resp) THEN [raised |-> TRUE, questions |-> <<>>]
    ELSE [raised |-> FALSE, questions |-> ParseMcqText(resp.text)]

(***************************************************************************)
(* The text the generation service is asked for (final.py 1951: "1.        *)
(* Question / a) Option 1 / ... / c) Option 3* / d) Option 4"): a list of  *)
(* questions rendered in the numbered and lettered format, the correct     *)
(* option followed by an asterisk.                                         *)
(***************************************************************************)
NumeralOf(i) == <<"1", "2", "3", "4", "5", "6", "7", "8", "9">>[i]

LetterOf(i) == <<"a", "b", "c", "d">>[i]

RenderOption(opt, correct_option) ==
    <<opt.letter, ")", " ">> \o opt.text
        \o (IF opt.letter = correct_option THEN <<"*">> ELSE <<>>)

RECURSIVE RenderOptions(_, _)
RenderOptions(options, correct_option) ==
    IF options = <<>> THEN <<>>
    ELSE <<"\n">> \o RenderOption(Head(options), correct_option)
           \o RenderOptions(Tail(options), correct_option)

RenderQuestion(i, q) ==
    <<NumeralOf(i), ".", " ">> \o q.question \o RenderOptions(q.options, q.correct_option)

RECURSIVE RenderFrom(_, _)
RenderFrom(i, qs) ==
    IF i > Len(qs) THEN <<>>
    ELSE (IF i = 1 THEN <<>> ELSE <<"\n">>) \o RenderQuestion(i, qs[i]) \o RenderFrom(i + 1, qs)

Render(qs) == RenderFrom(1, qs)

QT1 == <<"Q">>
QT2 == <<"2", "+", "2", "?">>
OT1 == <<"4">>
OT2 == <<"N", "o", "t", " ", "c", "o", "r", "r", "e", "c", "t">>
ML1 == <<"1", ".", " ", "Q">>
ML2 == <<"2", ")">>
ML3 == <<"a", ")", " ", "x", "*">>
ML4 == <<"a", ")", " ", "y">>
ML5 == <<"B", ".", " ", "C", "o", "r", "r", "e", "c", "t">>
ML6 == <<"e", ")", " ", "w", "*">>

\* Question and option texts of the well-formed questions: non-empty, one line,
\* no asterisk, no surrounding whitespace.
QuestionTexts == {QT1, QT2}

OptionTexts == {OT1, OT2}

MaxOptions == 2

WellFormedOptions ==
    UNION {[1..n -> OptionTexts] : n \in 1..MaxOptions}

WellFormedQuestions ==
    {[question |-> qt,
      options |-> [i \in 1..Len(ots) |-> [letter |-> LetterOf(i), text |-> ots[i]]],
      correct_option |-> LetterOf(c)] :
        <<qt, ots, c>> \in {t \in QuestionTexts \X WellFormedOptions \X (1..MaxOptions) :
                              t[3] <= Len(t[2])}}

WellFormedLists == UNION {[1..n -> WellFormedQuestions] : n \in 1..MaxQuestions}

\* Lines of free text the service may answer with.
McqLines == {ML1, ML2, ML3, ML4, ML5, ML6}

(***************************************************************************)
(* Specification SpecMcq: the service's answer is built, then one of the   *)
(* two parse_mcq_response is called on it.                                 *)
(***************************************************************************)
NoCall == [kind |-> "none"]

\* st.cache_data holds no value for the call / holds value
NoEntry == [stored |-> FALSE]
Entry(value) == [stored |-> TRUE, value |-> value]

\* No attempt is recorded and no statistics call was made.
StatIdle ==
    /\ quiz_history = <<>>
    /\ clock = 1
    /\ n_submitted = 0
    /\ topic_stats_cache = NoEntry
    /\ stats_ret = NoCall

NoQuiz == [active |-> FALSE]
NoScore == [set |-> FALSE]
NoAnswers == [q \in {} |-> "a"]

\* The session state as lines 22-40 initialise it.
SessIdle ==
    /\ sess_impl = "final"
    /\ session_user = None
    /\ current_quiz = NoQuiz
    /\ user_answers = NoAnswers
    /\ quiz_score = NoScore
    /\ show_explanations = FALSE
    /\ started = {}
    /\ submitted = {}

\* No text-generation call is running.
ApiIdle ==
    /\ api_impl = "final"
    /\ api_caller = None
    /\ api_pc = "idle"
    /\ api_attempt = 0
    /\ api_log = <<>>
    /\ api_ret = None
    /\ ui_failure = FALSE

Sessions == {"s1", "s2"}

\* No browser session is logged in and get_user_quiz_history was not called.
HistIdle ==
    /\ browser_user_id = [s \in Sessions |-> None]
    /\ history_cache = NoEntry
    /\ history_ret = NoCall

NoDraft == [present |-> FALSE]
NoSelection == [selected |-> FALSE]

\* The account part of the session state as lines 22-40 initialise it; the keys
\* generated_questions, current_topic, editing_question and
\* selected_quiz_history are absent.
AcctIdle ==
    /\ logged_in = FALSE
    /\ username = None
    /\ role = None
    /\ generated_questions = NoDraft
    /\ selected_question_id = None
    /\ editing_question = FALSE
    /\ selected_quiz_history = NoSelection

NoArgs == [username |-> None, password_ok |-> TRUE]

\* No register_user call is running; the users collection is empty.
RegIdle ==
    /\ reg_impl = "final"
    /\ users = <<>>
    /\ reg_pc = [s \in Sessions |-> "idle"]
    /\ reg_args = [s \in Sessions |-> NoArgs]
    /\ reg_ret = [s \in Sessions |-> None]
    /\ reg_calls = 0

\* The questions collection is empty.
QdbIdle ==
    /\ question_docs = <<>>
    /\ n_saved = 0
    /\ n_updates = 0

RestIdle == HistIdle /\ AcctIdle /\ RegIdle /\ QdbIdle

\* The analysis functions are not running.
SecIdle ==
    /\ sec_fn = "quiz"
    /\ analysis_lines = <<>>
    /\ sections = <<>>
    /\ current_section = None
    /\ section_content = <<>>
    /\ sec_pc = "done"

McqFrame == UNCHANGED <<sec_vars, stat_vars, sess_vars, api_vars, rest_vars>>

McqInit ==
    /\ response = [shape |-> "text", text |-> <<>>]
    /\ rendered = <<>>
    /\ nlines = 0
    /\ mcq_pc = "build"
    /\ mcq_impl = "none"
    /\ mcq_raised = FALSE
    /\ questions = <<>>

\* The service's text grows by one line.
AppendLine(l) ==
    /\ mcq_pc = "build" /\ response.shape = "text" /\ rendered = <<>>
    /\ nlines < MaxLines
    /\ response' = [response EXCEPT !.text = IF nlines = 0 THEN l ELSE @ \o <<"\n">> \o l]
    /\ nlines' = nlines + 1
    /\ UNCHANGED <<rendered, mcq_pc, mcq_impl, mcq_raised, questions>>
    /\ McqFrame

\* The service answers with a well-formed list in the requested format.
AnswerRendered(qs) ==
    /\ mcq_pc = "build" /\ response.shape = "text" /\ rendered = <<>> /\ nlines = 0
    /\ response' = [shape |-> "text", text |-> Render(qs)]
    /\ rendered' = qs
    /\ UNCHANGED <<nlines, mcq_pc, mcq_impl, mcq_raised, questions>>
    /\ McqFrame

\* The service answers with a payload that carries no text.
AnswerWithoutText(shape) ==
    /\ mcq_pc = "build" /\ response.shape = "text" /\ rendered = <<>> /\ nlines = 0
    /\ response' = [shape |-> shape, text |-> <<>>]
    /\ UNCHANGED <<rendered, nlines, mcq_pc, mcq_impl, mcq_raised, questions>>
    /\ McqFrame

CallParseFinal ==
    /\ mcq_pc = "build"
    /\ LET r == parse_mcq_response(response)
       IN  questions' = r.questions /\ mcq_raised' = r.raised
    /\ mcq_pc' = "parsed"
    /\ mcq_impl' = "final"
    /\ UNCHANGED <<response, rendered, nlines>>
    /\ McqFrame

CallParseApp ==
    /\ mcq_pc = "build"
    /\ LET r == parse_mcq_response_app(response)
       IN  questions' = r.questions /\ mcq_raised' = r.raised
    /\ mcq_pc' = "parsed"
    /\ mcq_impl' = "app"
    /\ UNCHANGED <<response, rendered, nlines>>
    /\ McqFrame

McqNext ==
    \/ \E l \in McqLines : AppendLine(l)
    \/ \E qs \in WellFormedLists : AnswerRendered(qs)
    \/ \E shape \in ResponseShapes \ {"text"} : AnswerWithoutText(shape)
    \/ CallParseFinal
    \/ CallParseApp

McqSpecInit == McqInit /\ SecIdle /\ StatIdle /\ SessIdle /\ ApiIdle /\ RestIdle

SpecMcq == McqSpecInit /\ [][McqNext]_vars

(***************************************************************************)
(* Claims about parse_mcq_response.                                        *)
(***************************************************************************)
McqParsed == mcq_pc = "parsed"

\* C1: for any list of N well-formed questions rendered in the numbered and
\* lettered format with one asterisk-marked option each, parse_mcq_response
\* returns exactly those N questions: same order, question text, option letters,
\* option text (asterisk stripped) and correct-option letter.
C1_RoundTrip ==
    (McqParsed /\ rendered # <<>>) => (~mcq_raised /\ questions = rendered)

\* C2: in every question parse_mcq_response emits, correct_option is the letter
\* of exactly one entry of the question's options.
C2_ExactlyOneOption ==
    McqParsed =>
        \A k \in DOMAIN questions :
            Cardinality({i \in DOMAIN questions[k].options :
                            questions[k].options[i].letter = questions[k].correct_option}) = 1

\* The lines of a block, and what makes a block well formed, read off the text.
BlockLines(block) == SplitLines(Strip(block))

IsOptionLine(l) == OptionTextStart(Strip(l)) # 0

IsMarkedOptionLine(l) ==
    /\ IsOptionLine(l)
    /\ LET line == Strip(l)
       IN  IsMarkedCorrect(Strip(SubSeq(line, OptionTextStart(line), Len(line))))

BlockHasOption(block) ==
    \E i \in 2..Len(BlockLines(block)) : IsOptionLine(BlockLines(block)[i])

BlockHasMarker(block) ==
    \E i \in 2..Len(BlockLines(block)) : IsMarkedOptionLine(BlockLines(block)[i])

BlockWellFormed(block) ==
    /\ Strip(block) # <<>>
    /\ Strip(BlockLines(block)[1]) # <<>>
    /\ BlockHasOption(block)
    /\ BlockHasMarker(block)

NthOf(S, k) == CHOOSE x \in S : Cardinality({y \in S : y < x}) = k - 1

\* C3: a block is emitted only if it has a non-empty question line, at least one
\* option and a marked option; the emitted questions are the well-formed blocks
\* in order, and the output is shorter than the block list whenever a block is
\* malformed.
C3_DropMalformed ==
    (McqParsed /\ response.shape = "text") =>
        LET blocks == QuestionBlocks(response.text)
            good == {i \in DOMAIN blocks : BlockWellFormed(blocks[i])}
        IN  /\ Len(questions) = Cardinality(good)
            /\ \A k \in DOMAIN questions :
                   /\ questions[k].question = Strip(BlockLines(blocks[NthOf(good, k)])[1])
                   /\ questions[k].options # <<>>
                   /\ questions[k].correct_option # None
            /\ (good # DOMAIN blocks => Len(questions) < Len(blocks))

\* C3's case: several blocks, one emitted, one with options but no marker.
C3_Witness ==
    /\ McqParsed /\ response.shape = "text"
    /\ Len(questions) >= 1
    /\ \E i \in DOMAIN QuestionBlocks(response.text) :
           LET b == QuestionBlocks(response.text)[i]
           IN  BlockHasOption(b) /\ ~BlockHasMarker(b)

IsBlank(text) == Strip(text) = <<>>

\* C4: parse_mcq_response never raises, whatever the payload, and returns the
\* empty list for empty or whitespace-only text.
C4_NeverRaises ==
    McqParsed =>
        /\ ~mcq_raised
        /\ (response.shape = "text" /\ IsBlank(response.text)) => questions = <<>>

(***************************************************************************)
(* The section loop of get_gemini_quiz_analysis, get_gemini_user_analysis  *)
(* and get_gemini_topic_recommendations.  The three loops have one shape:  *)
(* a chain of heading tests, a chain of numbered-item tests, the bullet    *)
(* test and the default.  HeadingTable holds what differs.                 *)
(***************************************************************************)
hKeyInsights == <<"K", "e", "y", " ", "I", "n", "s", "i", "g", "h", "t", "s">>
lKeyInsights == <<"k", "e", "y", " ", "i", "n", "s", "i", "g", "h", "t", "s">>
hRecommendations == <<"R", "e", "c", "o", "m", "m", "e", "n", "d", "a", "t", "i", "o", "n", "s">>
lRecommendations == <<"r", "e", "c", "o", "m", "m", "e", "n", "d", "a", "t", "i", "o", "n", "s">>
hTopicsToFocusOn == <<"T", "o", "p", "i", "c", "s", " ", "t", "o", " ", "F", "o", "c", "u", "s", " ", "O", "n">>
lTopicsToFocus == <<"t", "o", "p", "i", "c", "s", " ", "t", "o", " ", "f", "o", "c", "u", "s">>
hPerformanceSummary == <<"P", "e", "r", "f", "o", "r", "m", "a", "n", "c", "e", " ", "S", "u", "m", "m", "a", "r", "y">>
lPerformanceSummary == <<"p", "e", "r", "f", "o", "r", "m", "a", "n", "c", "e", " ", "s", "u", "m", "m", "a", "r", "y">>
hStrengths == <<"S", "t", "r", "e", "n", "g", "t", "h", "s">>
lStrengths == <<"s", "t", "r", "e", "n", "g", "t", "h", "s">>
hAreasForImprovement == <<"A", "r", "e", "a", "s", " ", "f", "o", "r", " ", "I", "m", "p", "r", "o", "v", "e", "m", "e", "n", "t">>
lAreasForImprovement == <<"a", "r", "e", "a", "s", " ", "f", "o", "r", " ", "i", "m", "p", "r", "o", "v", "e", "m", "e", "n", "t">>
lImprovement == <<"i", "m", "p", "r", "o", "v", "e", "m", "e", "n", "t">>
hPersonalizedStudyPlan == <<"P", "e", "r", "s", "o", "n", "a", "l", "i", "z", "e", "d", " ", "S", "t", "u", "d", "y", " ", "P", "l", "a", "n">>
lStudyPlan == <<"s", "t", "u", "d", "y", " ", "p", "l", "a", "n">>
hMotivationalNote == <<"M", "o", "t", "i", "v", "a", "t", "i", "o", "n", "a", "l", " ", "N", "o", "t", "e">>
lMotivation == <<"m", "o", "t", "i", "v", "a", "t", "i", "o", "n">>
hTopicOverview == <<"T", "o", "p", "i", "c", " ", "O", "v", "e", "r", "v", "i", "e", "w">>
lOverview == <<"o", "v", "e", "r", "v", "i", "e", "w">>
hCommonChallenges == <<"C", "o", "m", "m", "o", "n", " ", "C", "h", "a", "l", "l", "e", "n", "g", "e", "s">>
lChallenges == <<"c", "h", "a", "l", "l", "e", "n", "g", "e", "s">>
hStudyStrategies == <<"S", "t", "u", "d", "y", " ", "S", "t", "r", "a", "t", "e", "g", "i", "e", "s">>
lStrategies == <<"s", "t", "r", "a", "t", "e", "g", "i", "e", "s">>
hRecommendedResources == <<"R", "e", "c", "o", "m", "m", "e", "n", "d", "e", "d", " ", "R", "e", "s", "o", "u", "r", "c", "e", "s">>
lResources == <<"r", "e", "s", "o", "u", "r", "c", "e", "s">>
hPracticeApproach == <<"P", "r", "a", "c", "t", "i", "c", "e", " ", "A", "p", "p", "r", "o", "a", "c", "h">>
lPractice == <<"p", "r", "a", "c", "t", "i", "c", "e">>

AnalysisFunctions == {"quiz", "user", "topic"}

\* Per function, the heading branches in the order of the if/elif chain: the key,
\* the case-sensitive phrase, whether that phrase is tested with startswith
\* (quiz) or with "in" (user, topic), and the phrases tested in line.lower().
HeadingTable(fn) ==
    CASE fn = "quiz" ->
           <<[key |-> "key_insights", exact |-> hKeyInsights, prefix |-> TRUE,
              lowers |-> {lKeyInsights}],
             [key |-> "recommendations", exact |-> hRecommendations, prefix |-> TRUE,
              lowers |-> {lRecommendations}],
             [key |-> "focus_topics", exact |-> hTopicsToFocusOn, prefix |-> TRUE,
              lowers |-> {lTopicsToFocus}]>>
      [] fn = "user" ->
           <<[key |-> "summary", exact |-> hPerformanceSummary, prefix |-> FALSE,
              lowers |-> {lPerformanceSummary}],
             [key |-> "strengths", exact |-> hStrengths, prefix |-> FALSE,
              lowers |-> {lStrengths}],
             [key |-> "improvements", exact |-> hAreasForImprovement, prefix |-> FALSE,
              lowers |-> {lAreasForImprovement, lImprovement}],
             [key |-> "study_plan", exact |-> hPersonalizedStudyPlan, prefix |-> FALSE,
              lowers |-> {lStudyPlan}],
             [key |-> "motivation", exact |-> hMotivationalNote, prefix |-> FALSE,
              lowers |-> {lMotivation}]>>
      [] fn = "topic" ->
           <<[key |-> "overview", exact |-> hTopicOverview, prefix |-> FALSE,
              lowers |-> {lOverview}],
             [key |-> "challenges", exact |-> hCommonChallenges, prefix |-> FALSE,
              lowers |-> {lChallenges}],
             [key |-> "strategies", exact |-> hStudyStrategies, prefix |-> FALSE,
              lowers |-> {lStrategies}],
             [key |-> "resources", exact |-> hRecommendedResources, prefix |-> FALSE,
              lowers |-> {lResources}],
             [key |-> "practice", exact |-> hPracticeApproach, prefix |-> FALSE,
              lowers |-> {lPractice}]>>

NumHeadings(fn) == Len(HeadingTable(fn))

SectionKeys(fn) == {HeadingTable(fn)[i].key : i \in 1..NumHeadings(fn)}

KeyOf(fn, i) == HeadingTable(fn)[i].key

\* The condition of the i-th heading branch on the stripped line.
HeadingTest(fn, i, line) ==
    LET h == HeadingTable(fn)[i]
    IN  \/ IF h.prefix THEN StartsWith(line, h.exact) ELSE Contains(line, h.exact)
        \/ \E p \in h.lowers : Contains(Lower(line), p)

\* The first heading branch the line takes, 0 if it takes none.
HeadingBranch(fn, line) ==
    LET hit == {i \in 1..NumHeadings(fn) : HeadingTest(fn, i, line)}
    IN  IF hit = {} THEN 0 ELSE SetMin(hit)

\* The numbered-item branch the line takes, 0 if none: "1." with no current
\* section, "n." with the section n-1 current.
NumberedBranch(fn, line, current) ==
    LET hit == {n \in 1..NumHeadings(fn) :
                  /\ StartsWith(line, <<NumeralOf(n), ".">>)
                  /\ IF n = 1 THEN current = None ELSE current = KeyOf(fn, n - 1)}
    IN  IF hit = {} THEN 0 ELSE SetMin(hit)

\* "if current_section and section_content: sections[current_section] = section_content"
Flush(secs, current, content) ==
    IF current # None /\ content # <<>> THEN [secs EXCEPT ![current] = content] ELSE secs

\* line.startswith("-") or line.startswith("*") or
\* (line[0].isdigit() and line[1] in ['.', ')']): the value, or "IndexError" when
\* line[1] is read on a line of one character.
BulletTest(line) ==
    IF line[1] \in {"-", "*"} THEN "true"
    ELSE IF ~IsDigit(line[1]) THEN "false"
    ELSE IF Len(line) < 2 THEN "IndexError"
    ELSE IF line[2] \in {".", ")"} THEN "true" ELSE "false"

\* The pass of the loop whose heading branches keep the lines buffered while no
\* section was current.
SectionStepKeepsBuffer(fn, st, raw_line) ==
    LET line == Strip(raw_line)
        h == HeadingBranch(fn, line)
        n == NumberedBranch(fn, line, st.current_section)
        kept == IF st.current_section = None THEN st.section_content ELSE <<>>
    IN  IF line = <<>> THEN st
        ELSE IF h = 1 THEN
            [st EXCEPT !.current_section = KeyOf(fn, 1), !.section_content = kept]
        ELSE IF h > 1 THEN
            [st EXCEPT !.sections = Flush(@, st.current_section, st.section_content),
                       !.current_section = KeyOf(fn, h),
                       !.section_content = kept]
        ELSE IF n = 1 THEN
            [st EXCEPT !.current_section = KeyOf(fn, 1), !.section_content = Append(kept, line)]
        ELSE IF n > 1 THEN
            [st EXCEPT !.sections = Flush(@, st.current_section, st.section_content),
                       !.current_section = KeyOf(fn, n),
                       !.section_content = <<line>>]
        ELSE IF BulletTest(line) = "IndexError" THEN [st EXCEPT !.raised = TRUE]
        ELSE IF BulletTest(line) = "true" THEN
            [st EXCEPT !.section_content = Append(@, line)]
        ELSE IF st.current_section # None THEN
            [st EXCEPT !.section_content = Append(@, line)]
        ELSE st

\* One pass of the loop "for line in analysis_text.split('\n')" on the state
\* st = [sections, current_section, section_content, raised].
SectionStep(fn, st, raw_line) ==
    LET line == Strip(raw_line)
        h == HeadingBranch(fn, line)
        n == NumberedBranch(fn, line, st.current_section)
    IN  IF line = <<>> THEN st
        ELSE IF h = 1 THEN
            [st EXCEPT !.current_section = KeyOf(fn, 1), !.section_content = <<>>]
        ELSE IF h > 1 THEN
            [st EXCEPT !.sections = Flush(@, st.current_section, st.section_content),
                       !.current_section = KeyOf(fn, h),
                       !.section_content = <<>>]
        ELSE IF n = 1 THEN
            [st EXCEPT !.current_section = KeyOf(fn, 1), !.section_content = <<line>>]
        ELSE IF n > 1 THEN
            [st EXCEPT !.sections = Flush(@, st.current_section, st.section_content),
                       !.current_section = KeyOf(fn, n),
                       !.section_content = <<line>>]
        ELSE IF BulletTest(line) = "IndexError" THEN [st EXCEPT !.raised = TRUE]
        ELSE IF BulletTest(line) = "true" THEN
            [st EXCEPT !.section_content = Append(@, line)]
        ELSE IF st.current_section # None THEN
            [st EXCEPT !.section_content = Append(@, line)]
        ELSE st

(***************************************************************************)
(* The analysis text: lines the text-generation service may write.         *)
(***************************************************************************)
bBullet == <<"-", " ", "a">>
bNumbered == <<"2", ".", " ", "b">>
bDigit == <<"5">>
bPlain == <<"o", "k">>
bBlank == <<" ">>
bWordQuiz == <<"n", "o", " ", "r", "e", "c", "o", "m", "m", "e", "n", "d", "a", "t", "i", "o", "n", "s">>
bWordUser == <<"n", "o", " ", "i", "m", "p", "r", "o", "v", "e", "m", "e", "n", "t">>
bWordTopic == <<"p", "r", "a", "c", "t", "i", "c", "e", " ", "d", "a", "i", "l", "y">>

\* The lines that are section bodies by intent: bullets, numbered items, a lone
\* digit, plain text, and text that uses a word of a later heading.
BodyLines(fn) ==
    CASE fn = "quiz" -> {bBullet, bNumbered, bDigit, bPlain, bWordQuiz}
      [] fn = "user" -> {bNumbered, bDigit, bWordUser}
      [] fn = "topic" -> {bNumbered, bDigit, bWordTopic}

HeadingLines(fn) == {HeadingTable(fn)[i].exact : i \in 1..NumHeadings(fn)}

AnalysisLines(fn) ==
    HeadingLines(fn) \cup BodyLines(fn) \cup (IF fn = "quiz" THEN {bBlank} ELSE {})

MaxFreeLines == 3
MaxExtraLines == 1

HeadingPositions(fn, lines) == {k \in DOMAIN lines : lines[k] \in HeadingLines(fn)}

\* lines starts a text that holds the configured headings in order, each followed
\* by at least one body line.
OrderedPrefix(fn, lines) ==
    LET H == HeadingPositions(fn, lines)
    IN  /\ lines # <<>> => 1 \in H
        /\ Cardinality(H) <= NumHeadings(fn)
        /\ \A k \in H : /\ lines[k] = HeadingTable(fn)[Cardinality({j \in H : j <= k})].exact
                        /\ k + 1 \notin H
        /\ \A k \in DOMAIN lines \ H : lines[k] \in BodyLines(fn)

\* The body lines of an ordered prefix beyond one per heading.
ExtraBodyLines(fn, lines) ==
    LET H == HeadingPositions(fn, lines)
    IN  (Len(lines) - Cardinality(H)) - Cardinality({k \in H : k < Len(lines)})

\* lines is such a text, complete.
OrderedText(fn, lines) ==
    /\ lines # <<>>
    /\ OrderedPrefix(fn, lines)
    /\ Cardinality(HeadingPositions(fn, lines)) = NumHeadings(fn)
    /\ Len(lines) \notin HeadingPositions(fn, lines)

(***************************************************************************)
(* Specification SpecSections: one of the three functions reads its        *)
(* analysis text line by line, then returns.                               *)
(***************************************************************************)
SecFrame == UNCHANGED <<mcq_vars, stat_vars, sess_vars, api_vars, rest_vars>>

SecInit ==
    /\ sec_fn \in AnalysisFunctions
    /\ analysis_lines = <<>>
    /\ sections = [k \in SectionKeys(sec_fn) |-> <<>>]
    /\ current_section = None
    /\ section_content = <<>>
    /\ sec_pc = "loop"

\* One iteration of the loop, on the next line l of the text.
ProcessLine(l) ==
    /\ sec_pc = "loop"
    /\ LET text == Append(analysis_lines, l)
       IN  \/ Len(text) <= MaxFreeLines
           \/ /\ OrderedPrefix(sec_fn, text)
              /\ ExtraBodyLines(sec_fn, text) <= MaxExtraLines
    /\ analysis_lines' = Append(analysis_lines, l)
    /\ LET st == SectionStep(sec_fn,
                             [sections |-> sections,
                              current_section |-> current_section,
                              section_content |-> section_content,
                              raised |-> FALSE], l)
       IN  /\ sections' = st.sections
           /\ current_section' = st.current_section
           /\ section_content' = st.section_content
           /\ sec_pc' = IF st.raised THEN "error" ELSE "loop"
    /\ UNCHANGED sec_fn
    /\ SecFrame

\* The end of the text: "Add the last section" and return success.
ReturnAnalysis ==
    /\ sec_pc = "loop"
    /\ sections' = Flush(sections, current_section, section_content)
    /\ sec_pc' = "done"
    /\ UNCHANGED <<sec_fn, analysis_lines, current_section, section_content>>
    /\ SecFrame

SecNext ==
    \/ \E l \in AnalysisLines(sec_fn) : ProcessLine(l)
    \/ ReturnAnalysis

SecSpecInit == SecInit /\ McqInit /\ StatIdle /\ SessIdle /\ ApiIdle /\ RestIdle

SpecSections == SecSpecInit /\ [][SecNext]_vars

(***************************************************************************)
(* Claims about the section loop.                                          *)
(***************************************************************************)
\* The body lines that follow the j-th heading of an ordered text.
BodyOf(fn, lines, j) ==
    LET H == HeadingPositions(fn, lines)
        from == NthOf(H, j)
        upto == IF j = NumHeadings(fn) THEN Len(lines) ELSE NthOf(H, j + 1) - 1
    IN  SubSeq(lines, from + 1, upto)

\* C5: for a text that holds all configured headings in order, each followed by
\* at least one body line, the loop yields exactly those section keys, each with
\* its body lines in order, whatever the body lines contain.
C5_SectionCompleteness ==
    (sec_pc = "done" /\ OrderedText(sec_fn, analysis_lines)) =>
        \A j \in 1..NumHeadings(sec_fn) :
            sections[KeyOf(sec_fn, j)] = BodyOf(sec_fn, analysis_lines, j)

\* C6: whatever the analysis text, the section loop ends without an exception
\* and the function returns success.
C6_NoErrorOutcome == sec_pc # "error"

(***************************************************************************)
(* Statistics over quiz_history_collection.  Averages are exact rationals  *)
(* [num, den]; a value pandas rounds to two decimals is held in hundredths.*)
(***************************************************************************)
RECURSIVE SumSeq(_)
SumSeq(xs) == IF xs = <<>> THEN 0 ELSE Head(xs) + SumSeq(Tail(xs))

Percentages(docs) == [i \in DOMAIN docs |-> docs[i].score_percentage]

Rat(n, d) == [num |-> n, den |-> d]
RatLess(a, b) == a.num * b.den < b.num * a.den
RatLeq(a, b) == a.num * b.den <= b.num * a.den
RatEq(a, b) == a.num * b.den = b.num * a.den
RatSub(a, b) == Rat(a.num * b.den - b.num * a.den, a.den * b.den)

\* {"$avg": "$score_percentage"} and Series.mean()
Mean(docs) == Rat(SumSeq(Percentages(docs)), Len(docs))

\* find({field: value}): the documents that match, in natural order
FindByUser(docs, user_id) == SelectSeq(docs, LAMBDA d : d.user_id = user_id)
FindByTopic(docs, topic) == SelectSeq(docs, LAMBDA d : d.topic = topic)

\* .sort("end_time", -1) and sort_values(by="end_time"): insertion of each
\* document into the sorted prefix (equal keys keep their order).
RECURSIVE InsertByEndTime(_, _, _)
InsertByEndTime(sorted, d, descending) ==
    IF sorted = <<>> THEN <<d>>
    ELSE IF (IF descending THEN d.end_time > Head(sorted).end_time
                           ELSE d.end_time < Head(sorted).end_time)
         THEN <<d>> \o sorted
         ELSE <<Head(sorted)>> \o InsertByEndTime(Tail(sorted), d, descending)

RECURSIVE SortByEndTime(_, _)
SortByEndTime(docs, descending) ==
    IF docs = <<>> THEN <<>>
    ELSE InsertByEndTime(SortByEndTime(SubSeq(docs, 1, Len(docs) - 1), descending),
                         docs[Len(docs)], descending)

TopicsOf(docs) == {docs[i].topic : i \in DOMAIN docs}

\* [{"$group": {"_id": "$topic", "attempts": {"$sum": 1},
\*              "avg_score": {"$avg": "$score_percentage"}}}]
\* The order of the groups is not specified: the result is held as a set.
TopicGroupPipeline(docs) ==
    {[_id |-> t,
      attempts |-> Len(FindByTopic(docs, t)),
      avg_score |-> Mean(FindByTopic(docs, t))] : t \in TopicsOf(docs)}

\* {"$sort": {"avg_score": 1}} on a set of groups: every order the server may
\* return (groups of equal average come in an order the server chooses).
RECURSIVE SortByAvgScore(_)
SortByAvgScore(groups) ==
    IF groups = {} THEN {<<>>}
    ELSE UNION {{<<g>> \o rest : rest \in SortByAvgScore(groups \ {g})} :
                  g \in {x \in groups : \A y \in groups : RatLeq(x.avg_score, y.avg_score)}}

\* {"$limit": n}
Limit(xs, n) == SubSeq(xs, 1, IF Len(xs) < n THEN Len(xs) ELSE n)

DifficultyMinAttempts == 3
DifficultyLimit == 5

\* The pipeline without its $match stage.
DifficultyPipelineNoMatch(docs) ==
    {Limit(sorted, DifficultyLimit) : sorted \in SortByAvgScore(TopicGroupPipeline(docs))}

\* difficulty_pipeline of get_quiz_detailed_stats: the results the server may return
DifficultyPipeline(docs) ==
    {Limit(sorted, DifficultyLimit) :
        sorted \in SortByAvgScore({g \in TopicGroupPipeline(docs) :
                                     g.attempts >= DifficultyMinAttempts})}

UsersOf(docs) == {docs[i].user_id : i \in DOMAIN docs}

\* get_quiz_detailed_stats, given what get_quiz_stats_by_topic() and the
\* difficulty pipeline returned to it.
get_quiz_detailed_stats(docs, topic_stats, difficult_topics) ==
    [kind |-> "quiz_detailed",
     total_attempts |-> Len(docs),
     unique_users |-> Cardinality(UsersOf(docs)),
     avg_score |-> IF docs = <<>> THEN Rat(0, 1) ELSE Mean(docs),
     topic_stats |-> topic_stats,
     difficult_topics |-> difficult_topics]

\* DataFrame.round(2) of the value n/d, in hundredths (round half to even).
Round2(n, d) ==
    LET q == (100 * n) \div d
        r == (100 * n) % d
    IN  IF 2 * r > d THEN q + 1
        ELSE IF 2 * r < d THEN q
        ELSE IF q % 2 = 0 THEN q ELSE q + 1

SeqMin(xs) == SetMin({xs[i] : i \in DOMAIN xs})
SeqMax(xs) == SetMax({xs[i] : i \in DOMAIN xs})

\* history_df.groupby("topic").agg(mean, min, max, count), then .round(2); the
\* three scores are in hundredths of a percent.
UserTopicStats(docs) ==
    {LET of_t == FindByTopic(docs, t)
     IN  [Topic |-> t,
          AverageScore |-> Round2(SumSeq(Percentages(of_t)), Len(of_t)),
          MinScore |-> 100 * SeqMin(Percentages(of_t)),
          MaxScore |-> 100 * SeqMax(Percentages(of_t)),
          Attempts |-> Len(of_t)] : t \in TopicsOf(docs)}

\* The rolling mean with a window of 2 rows.
RollingAvgWindowTwo(df, i) == Mean(SubSeq(df, IF i > 2 THEN i - 1 ELSE 1, i))

\* history_df["score_percentage"].rolling(window=3, min_periods=1).mean() at row i
\* (rows from 1)
RollingAvg(df, i) == Mean(SubSeq(df, IF i > 3 THEN i - 2 ELSE 1, i))

\* A value that may be None
Null == [null |-> TRUE]
Some(v) == [null |-> FALSE, value |-> v]

\* recent_trend: last score minus first score, from 2 attempts on
RecentTrend(history_df) ==
    IF Len(history_df) >= 2
    THEN Some(history_df[Len(history_df)].score_percentage - history_df[1].score_percentage)
    ELSE Null

\* rolling_trend computed from 4 attempts on
RollingTrendFromFour(history_df) ==
    IF Len(history_df) >= 4
    THEN Some(RatSub(RollingAvg(history_df, Len(history_df)), RollingAvg(history_df, 3)))
    ELSE Null

\* rolling_trend: last rolling average minus the third, from 5 attempts on
RollingTrend(history_df) ==
    IF Len(history_df) >= 5
    THEN Some(RatSub(RollingAvg(history_df, Len(history_df)), RollingAvg(history_df, 3)))
    ELSE Null

\* get_user_detailed_stats(user_id)
get_user_detailed_stats(docs, user_id) ==
    LET user_history == SortByEndTime(FindByUser(docs, user_id), TRUE)
        history_df == IF Len(user_history) >= 2
                      THEN SortByEndTime(user_history, FALSE) ELSE user_history
        n == Len(history_df)
    IN  IF user_history = <<>> THEN [kind |-> "user_detailed", has_data |-> FALSE]
        ELSE [kind |-> "user_detailed",
              has_data |-> TRUE,
              total_quizzes |-> n,
              total_questions |-> SumSeq([i \in 1..n |-> history_df[i].total_questions]),
              correct_answers |-> SumSeq([i \in 1..n |-> history_df[i].score]),
              avg_score |-> Mean(history_df),
              recent_trend |-> RecentTrend(history_df),
              rolling_trend |-> RollingTrend(history_df),
              topic_stats |-> UserTopicStats(history_df),
              quizzes |-> user_history]

(***************************************************************************)
(* The trend message of render_user_performance_stats (final.py 1506-1533):*)
(* stats.linregress of the scores against 0, 1, 2, ... in end_time order.  *)
(* With Sxx, Sxy, Syy the sums of squares scaled by n*n, slope = Sxy/Sxx   *)
(* and r = Sxy/sqrt(Sxx*Syy) (r = 0 when a factor is 0), so the float      *)
(* comparisons become integer ones.                                        *)
(***************************************************************************)
Sxx(ys) ==
    LET n == Len(ys)
    IN  n * SumSeq([i \in 1..n |-> (i - 1) * (i - 1)])
          - SumSeq([i \in 1..n |-> i - 1]) * SumSeq([i \in 1..n |-> i - 1])

Sxy(ys) ==
    LET n == Len(ys)
    IN  n * SumSeq([i \in 1..n |-> (i - 1) * ys[i]])
          - SumSeq([i \in 1..n |-> i - 1]) * SumSeq(ys)

Syy(ys) ==
    LET n == Len(ys)
    IN  n * SumSeq([i \in 1..n |-> ys[i] * ys[i]]) - SumSeq(ys) * SumSeq(ys)

\* abs(r_value) > 0.3
CorrelationIsMeaningful(ys) ==
    /\ Sxx(ys) # 0 /\ Syy(ys) # 0
    /\ 100 * Sxy(ys) * Sxy(ys) > 9 * Sxx(ys) * Syy(ys)

\* slope > 0
SlopeIsPositive(ys) == Sxy(ys) > 0

\* The classification of the rows as they come (latest first).
TrajectoryUnsorted(quizzes) ==
    IF Len(quizzes) <= 1 THEN "none"
    ELSE LET y == Percentages(quizzes)
         IN  IF CorrelationIsMeaningful(y)
             THEN IF SlopeIsPositive(y) THEN "upward" ELSE "downward"
             ELSE "stable"

\* The message shown: "none" when the chart is not drawn (fewer than 2 attempts).
Trajectory(quizzes) ==
    IF Len(quizzes) <= 1 THEN "none"
    ELSE LET y == Percentages(SortByEndTime(quizzes, FALSE))
         IN  IF CorrelationIsMeaningful(y)
             THEN IF SlopeIsPositive(y) THEN "upward" ELSE "downward"
             ELSE "stable"

(***************************************************************************)
(* The attempts sessions submit, and the statistics calls.                 *)
(***************************************************************************)
\* score_percentage = (score / total_questions) * 100 if total_questions > 0 else 0
\* (the totals of the model divide 100 * score)
ScorePercentage(score, total_questions) ==
    IF total_questions > 0 THEN (100 * score) \div total_questions ELSE 0

Attempt(user_id, topic, score, total_questions, start_time, end_time) ==
    [user_id |-> user_id, topic |-> topic, score |-> score,
     total_questions |-> total_questions,
     score_percentage |-> ScorePercentage(score, total_questions),
     start_time |-> start_time, end_time |-> end_time]

Choice(user_id, topic, score, total_questions) ==
    [user_id |-> user_id, topic |-> topic, score |-> score,
     total_questions |-> total_questions]

\* What the sessions of the user statistics runs submit: quizzes of four questions
\* by u1, a quiz by u2.
UserChoices ==
    {Choice("u1", "t1", sc, 4) : sc \in 0..4} \cup {Choice("u2", "t1", 1, 2)}

\* What the sessions of the topic statistics runs submit.
TopicChoices ==
    {Choice("u1", "t1", sc, 2) : sc \in 0..2} \cup {Choice("u1", "t2", 0, 2)}

MaxUserAttempts == 5
MaxTopicAttempts == 4

\* A collection that already holds three attempts on each of five topics.
PreloadedScores ==
    <<0, 0, 1,  0, 1, 1,  1, 1, 1,  1, 1, 2,  1, 2, 2>>

PreloadedHistory ==
    [i \in 1..Len(PreloadedScores) |->
        Attempt("u3", <<"p1", "p2", "p3", "p4", "p5">>[((i - 1) \div 3) + 1],
                PreloadedScores[i], 2, i, i + 1)]

StatFrame == UNCHANGED <<mcq_vars, sec_vars, sess_vars, api_vars, rest_vars>>

\* submit_quiz's insert_one of an attempt that started at clock and took minutes.
SubmitTimedQuiz(c, minutes, max) ==
    /\ n_submitted < max
    /\ quiz_history' = Append(quiz_history,
                              Attempt(c.user_id, c.topic, c.score, c.total_questions,
                                      clock, clock + minutes))
    /\ clock' = clock + minutes
    /\ n_submitted' = n_submitted + 1
    /\ stats_ret' = NoCall
    /\ UNCHANGED topic_stats_cache
    /\ StatFrame

\* submit_quiz's insert_one of an attempt that took a minute.
SubmitQuizRecord(c, max) == SubmitTimedQuiz(c, 1, max)

(***************************************************************************)
(* The speed analysis of render_user_performance_stats (final.py 1720-1735):*)
(* Series.corr of questions_per_minute against score_percentage.  The rates *)
(* total_questions / minutes are brought to a common denominator (Pearson's *)
(* r does not change with the scale); r is held by its sign and its square. *)
(***************************************************************************)
RECURSIVE ProductOf(_)
ProductOf(S) ==
    IF S = {} THEN 1
    ELSE LET x == CHOOSE y \in S : TRUE IN x * ProductOf(S \ {x})

DurationMinutes(d) == d.end_time - d.start_time

\* questions_per_minute of each row, times the product of the distinct durations
QuestionsPerMinute(quizzes) ==
    LET common == ProductOf({DurationMinutes(quizzes[i]) : i \in DOMAIN quizzes})
    IN  [i \in DOMAIN quizzes |->
            quizzes[i].total_questions * (common \div DurationMinutes(quizzes[i]))]

\* n * sum(x*y) - sum(x) * sum(y): n*n times the covariance of xs and ys
CoSum(xs, ys) ==
    Len(xs) * SumSeq([i \in DOMAIN xs |-> xs[i] * ys[i]]) - SumSeq(xs) * SumSeq(ys)

Sign(n) == IF n > 0 THEN 1 ELSE IF n < 0 THEN -1 ELSE 0

NotComputed == [kind |-> "not_computed"]
NaN == [kind |-> "nan"]

\* Series.corr: NaN when a series has no variance
Corr(xs, ys) ==
    IF CoSum(xs, xs) = 0 \/ CoSum(ys, ys) = 0 THEN NaN
    ELSE [kind |-> "value",
          sign |-> Sign(CoSum(xs, ys)),
          square |-> Rat(CoSum(xs, ys) * CoSum(xs, ys), CoSum(xs, xs) * CoSum(ys, ys))]

\* The correlation computed from 3 attempts on.
SpeedCorrelationFromThree(quizzes) ==
    IF Len(quizzes) > 2
    THEN Corr(QuestionsPerMinute(quizzes), Percentages(quizzes))
    ELSE NotComputed

\* correlation of lines 1721-1727: computed when there are more than 3 rows
SpeedCorrelation(quizzes) ==
    IF Len(quizzes) > 3
    THEN Corr(QuestionsPerMinute(quizzes), Percentages(quizzes))
    ELSE NotComputed

\* The message of lines 1729-1735 (a comparison with NaN is false)
SpeedMessage(correlation) ==
    IF correlation.kind = "not_computed" THEN "none"
    ELSE IF correlation.kind = "value"
              /\ 100 * correlation.square.num > 9 * correlation.square.den
         THEN IF correlation.sign > 0 THEN "faster" ELSE "slower"
         ELSE "no_relationship"

\* render_user_performance_stats in a session of user_id: the statistics, the
\* trend message and the speed analysis.
RenderUserPerformanceStats(user_id) ==
    /\ LET user_stats == get_user_detailed_stats(quiz_history, user_id)
       IN  stats_ret' = [kind |-> "user_page",
                         user_id |-> user_id,
                         user_stats |-> user_stats,
                         trajectory |-> IF user_stats.has_data
                                        THEN Trajectory(user_stats.quizzes) ELSE "none",
                         speed_correlation |->
                             IF user_stats.has_data
                             THEN SpeedCorrelation(user_stats.quizzes) ELSE NotComputed,
                         speed_message |->
                             IF user_stats.has_data
                             THEN SpeedMessage(SpeedCorrelation(user_stats.quizzes))
                             ELSE "none"]
    /\ UNCHANGED <<quiz_history, clock, n_submitted, topic_stats_cache>>
    /\ StatFrame

\* final.py get_quiz_stats_by_topic under @st.cache_data(ttl=300): the stored
\* value if there is one, else the pipeline's result, which is stored.
CachedTopicStats == 
    IF topic_stats_cache.stored THEN topic_stats_cache.value
    ELSE TopicGroupPipeline(quiz_history)

CallQuizStatsByTopic ==
    /\ stats_ret' = [kind |-> "topic_stats", computed |-> ~topic_stats_cache.stored,
                     value |-> CachedTopicStats]
    /\ topic_stats_cache' = Entry(CachedTopicStats)
    /\ UNCHANGED <<quiz_history, clock, n_submitted>>
    /\ StatFrame

\* app.py get_quiz_stats_by_topic: the pipeline, every time.
CallQuizStatsByTopicApp ==
    /\ stats_ret' = [kind |-> "topic_stats", computed |-> TRUE,
                     value |-> TopicGroupPipeline(quiz_history)]
    /\ UNCHANGED <<quiz_history, clock, n_submitted, topic_stats_cache>>
    /\ StatFrame

\* get_quiz_detailed_stats, which calls get_quiz_stats_by_topic().
CallQuizDetailedStats ==
    /\ \E difficult_topics \in DifficultyPipeline(quiz_history) :
          stats_ret' = get_quiz_detailed_stats(quiz_history, CachedTopicStats,
                                               difficult_topics)
    /\ topic_stats_cache' = Entry(CachedTopicStats)
    /\ UNCHANGED <<quiz_history, clock, n_submitted>>
    /\ StatFrame

\* The cache entry is older than its ttl.
ExpireTopicStatsCache ==
    /\ topic_stats_cache.stored
    /\ topic_stats_cache' = NoEntry
    /\ stats_ret' = NoCall
    /\ UNCHANGED <<quiz_history, clock, n_submitted>>
    /\ StatFrame

UserStatsInit == McqInit /\ SecIdle /\ StatIdle /\ SessIdle /\ ApiIdle /\ RestIdle

UserStatsNext ==
    \/ \E c \in UserChoices : SubmitQuizRecord(c, MaxUserAttempts)
    \/ \E u \in {"u1", "u2"} : RenderUserPerformanceStats(u)

SpecUserStats == UserStatsInit /\ [][UserStatsNext]_vars

\* What the sessions of the speed analysis runs submit: quizzes of two or four
\* questions taking one or two minutes.
SpeedChoices ==
    {Choice("u1", "t1", 0, 2), Choice("u1", "t1", 2, 2), Choice("u1", "t1", 2, 4)}

SpeedMinutes == {1, 2}

MaxSpeedAttempts == 4

SpeedStatsNext ==
    \/ \E c \in SpeedChoices, minutes \in SpeedMinutes :
          SubmitTimedQuiz(c, minutes, MaxSpeedAttempts)
    \/ \E u \in {"u1"} : RenderUserPerformanceStats(u)

SpecSpeedStats == UserStatsInit /\ [][SpeedStatsNext]_vars

TopicStatsInit ==
    /\ McqInit /\ SecIdle /\ SessIdle /\ ApiIdle /\ RestIdle
    /\ quiz_history \in {<<>>, PreloadedHistory}
    /\ clock = Len(quiz_history) + 2
    /\ n_submitted = 0
    /\ topic_stats_cache = NoEntry
    /\ stats_ret = NoCall

TopicStatsNext ==
    \/ \E c \in TopicChoices : SubmitQuizRecord(c, MaxTopicAttempts)
    \/ \E u \in {"u1"} : RenderUserPerformanceStats(u)
    \/ CallQuizStatsByTopic
    \/ CallQuizStatsByTopicApp
    \/ CallQuizDetailedStats
    \/ ExpireTopicStatsCache

SpecTopicStats == TopicStatsInit /\ [][TopicStatsNext]_vars

(***************************************************************************)
(* Claims about the statistics.                                            *)
(***************************************************************************)
UserPage == stats_ret.kind = "user_page"

\* The attempts of the collection by user_id / on topic, counted document by document.
AttemptsBy(user_id) ==
    {i \in DOMAIN quiz_history : quiz_history[i].user_id = user_id}

AttemptsOn(docs, topic) == {i \in DOMAIN docs : docs[i].topic = topic}

RECURSIVE SumOver(_, _)
SumOver(docs, idx) ==
    IF idx = {} THEN 0
    ELSE LET i == CHOOSE j \in idx : TRUE
         IN  docs[i].score_percentage + SumOver(docs, idx \ {i})

\* C7: get_user_detailed_stats returns has_data = false for a user with no
\* attempts; with exactly 1 attempt recent_trend is null; with exactly 4 attempts
\* rolling_trend is null; with exactly 5 attempts rolling_trend is not null.
C7_TrendSentinels ==
    UserPage =>
        LET n == Cardinality(AttemptsBy(stats_ret.user_id))
            user_stats == stats_ret.user_stats
        IN  /\ n = 0 => ~user_stats.has_data
            /\ n = 1 => user_stats.has_data /\ user_stats.recent_trend.null
            /\ n = 4 => user_stats.has_data /\ user_stats.rolling_trend.null
            /\ n = 5 => user_stats.has_data /\ ~user_stats.rolling_trend.null

\* The statistics of a user with exactly 5 attempts were returned.
C7_Witness ==
    /\ UserPage
    /\ Cardinality(AttemptsBy(stats_ret.user_id)) = 5
    /\ ~stats_ret.user_stats.rolling_trend.null
    /\ ~stats_ret.user_stats.recent_trend.null

\* groups (entries _id, attempts, avg_score) is the per-topic breakdown of docs:
\* one entry per topic with an attempt, none for another topic, the number of
\* attempts and the arithmetic mean of score_percentage.
IsTopicBreakdown(groups, docs) ==
    /\ {g._id : g \in groups} = {docs[i].topic : i \in DOMAIN docs}
    /\ Cardinality(groups) = Cardinality({docs[i].topic : i \in DOMAIN docs})
    /\ \A g \in groups :
          /\ g.attempts = Cardinality(AttemptsOn(docs, g._id))
          /\ g.avg_score.num * g.attempts
               = SumOver(docs, AttemptsOn(docs, g._id)) * g.avg_score.den

\* The same of the rows (Topic, AverageScore in hundredths, Attempts) of a user's table.
IsUserTopicBreakdown(rows, docs) ==
    /\ {g.Topic : g \in rows} = {docs[i].topic : i \in DOMAIN docs}
    /\ Cardinality(rows) = Cardinality({docs[i].topic : i \in DOMAIN docs})
    /\ \A g \in rows :
          /\ g.Attempts = Cardinality(AttemptsOn(docs, g.Topic))
          /\ g.AverageScore * g.Attempts = 100 * SumOver(docs, AttemptsOn(docs, g.Topic))

\* C8: the per-topic breakdown contains one entry for each topic that has at
\* least one attempt and no entry for any other topic; each entry's attempts is
\* the number of attempts on the topic and its avg_score the arithmetic mean of
\* their score_percentage values.
C8_PerTopicBreakdown ==
    /\ stats_ret.kind = "topic_stats" => IsTopicBreakdown(stats_ret.value, quiz_history)
    /\ stats_ret.kind = "quiz_detailed"
         => IsTopicBreakdown(stats_ret.topic_stats, quiz_history)
    /\ (UserPage /\ stats_ret.user_stats.has_data)
         => IsUserTopicBreakdown(stats_ret.user_stats.topic_stats,
                                 FindByUser(quiz_history, stats_ret.user_id))

\* C9: the difficult-topics list contains only topics with at least 3 attempts,
\* is sorted ascending by avg_score and holds at most 5 entries; a topic with
\* fewer than 3 attempts is excluded regardless of its average score.
C9_DifficultTopics ==
    stats_ret.kind = "quiz_detailed" =>
        LET difficult_topics == stats_ret.difficult_topics
        IN  /\ Len(difficult_topics) <= 5
            /\ \A i \in DOMAIN difficult_topics :
                  /\ Cardinality(AttemptsOn(quiz_history, difficult_topics[i]._id)) >= 3
                  /\ difficult_topics[i].attempts
                       = Cardinality(AttemptsOn(quiz_history, difficult_topics[i]._id))
            /\ \A i, j \in DOMAIN difficult_topics :
                  i < j => RatLeq(difficult_topics[i].avg_score, difficult_topics[j].avg_score)
            /\ \A t \in TopicsOf(quiz_history) :
                  Cardinality(AttemptsOn(quiz_history, t)) < 3
                    => \A i \in DOMAIN difficult_topics : difficult_topics[i]._id # t

\* Six topics have 3 attempts, the list was cut to 5, and a topic with fewer than
\* 3 attempts has an average below that of the list's first entry.
C9_Witness ==
    /\ stats_ret.kind = "quiz_detailed"
    /\ Len(stats_ret.difficult_topics) = 5
    /\ Cardinality({t \in TopicsOf(quiz_history) :
                      Cardinality(AttemptsOn(quiz_history, t)) >= 3}) = 6
    /\ \E t \in TopicsOf(quiz_history) :
          /\ Cardinality(AttemptsOn(quiz_history, t)) < 3
          /\ RatLess(Mean(FindByTopic(quiz_history, t)),
                     stats_ret.difficult_topics[1].avg_score)

\* The scores of the user the page is about, ordered by end_time.
ScoresByEndTime ==
    Percentages(SortByEndTime(FindByUser(quiz_history, stats_ret.user_id), FALSE))

StrictlyIncreasing(ys) == \A i \in 1..(Len(ys) - 1) : ys[i] < ys[i + 1]

\* C10: the trajectory classification over a user's scores ordered by end_time
\* reports "stable" whenever |correlation| <= 0.3 whatever the slope's sign,
\* "upward" only when |correlation| > 0.3 and slope > 0, "downward" only when
\* |correlation| > 0.3 and slope <= 0; for a strictly increasing score sequence
\* it reports "upward".
C10_TrajectoryClassification ==
    (UserPage /\ Len(ScoresByEndTime) >= 2) =>
        LET y == ScoresByEndTime
            trajectory == stats_ret.trajectory
        IN  /\ trajectory \in {"stable", "upward", "downward"}
            /\ ~CorrelationIsMeaningful(y) => trajectory = "stable"
            /\ trajectory = "upward" => CorrelationIsMeaningful(y) /\ SlopeIsPositive(y)
            /\ trajectory = "downward" => CorrelationIsMeaningful(y) /\ ~SlopeIsPositive(y)
            /\ StrictlyIncreasing(y) => trajectory = "upward"

\* Five strictly increasing scores were classified upward.
C10_Witness ==
    /\ UserPage
    /\ Len(ScoresByEndTime) = 5
    /\ StrictlyIncreasing(ScoresByEndTime)
    /\ stats_ret.trajectory = "upward"

(***************************************************************************)
(* Claims about the speed analysis.                                        *)
(***************************************************************************)
RECURSIVE Gcd(_, _)
Gcd(a, b) == IF b = 0 THEN a ELSE Gcd(b, a % b)

Abs(n) == IF n < 0 THEN -n ELSE n

\* A fraction in lowest terms with a positive denominator.
Frac(n, d) ==
    LET g == Gcd(Abs(n), Abs(d))
    IN  [num |-> Sign(d) * (n \div g), den |-> Abs(d) \div g]

FracAdd(a, b) == Frac(a.num * b.den + b.num * a.den, a.den * b.den)
FracSub(a, b) == Frac(a.num * b.den - b.num * a.den, a.den * b.den)
FracMul(a, b) == Frac(a.num * b.num, a.den * b.den)

RECURSIVE FracSum(_)
FracSum(fs) == IF fs = <<>> THEN Frac(0, 1) ELSE FracAdd(Head(fs), FracSum(Tail(fs)))

FracMean(fs) == FracMul(FracSum(fs), Frac(1, Len(fs)))

\* sum of (x - mean x) * (y - mean y)
Deviations(xs, ys) ==
    FracSum([i \in DOMAIN xs |->
                FracMul(FracSub(xs[i], FracMean(xs)), FracSub(ys[i], FracMean(ys)))])

\* The attempts of the user the page is about, in the collection's order.
PageAttempts == FindByUser(quiz_history, stats_ret.user_id)

\* total_questions / duration_minutes and score_percentage of these attempts
AnswerRates ==
    [i \in DOMAIN PageAttempts |->
        Frac(PageAttempts[i].total_questions,
             PageAttempts[i].end_time - PageAttempts[i].start_time)]

Scores == [i \in DOMAIN PageAttempts |-> Frac(PageAttempts[i].score_percentage, 1)]

ZeroVariance(xs) == Deviations(xs, xs).num = 0

ReturnedAtCallTime ==
    /\ stats_ret.kind = "topic_stats" => stats_ret.value = TopicGroupPipeline(quiz_history)
    /\ stats_ret.kind = "quiz_detailed"
         => /\ stats_ret.total_attempts = Len(quiz_history)
            /\ stats_ret.topic_stats = TopicGroupPipeline(quiz_history)
            /\ stats_ret.difficult_topics \in DifficultyPipeline(quiz_history)
    /\ UserPage
         => stats_ret.user_stats
              = get_user_detailed_stats(quiz_history, stats_ret.user_id)

\* A step that returns statistics leaves the collection as it was.
CallKeepsCollection == stats_ret' # NoCall => quiz_history' = quiz_history

\* C12: every derived statistics structure is a pure function of the attempt
\* collection at call time: get_quiz_stats_by_topic, get_quiz_detailed_stats and
\* get_user_detailed_stats leave the attempt collection unchanged, and a call
\* made after submit_quiz recorded a new attempt returns statistics that
\* include that attempt.
C12_PureAtCallTime == []ReturnedAtCallTime /\ [][CallKeepsCollection]_vars

(***************************************************************************)
(* The quiz of a session: start_quiz, the answer widgets, submit_quiz and  *)
(* the buttons of the Take Quiz tab (final.py 2119-2262, app.py 596-718).  *)
(* A quiz holds its number of questions; the correct option of each is a.  *)
(***************************************************************************)
MaxStarted == 2

QuizSizes == {1, 2}
QuizTopics == {"t1"}
Letters == {"a", "b"}
CorrectOption == "a"

\* user_answers[question_id] = selected_option
Put(answers, q, letter) ==
    [x \in DOMAIN answers \cup {q} |-> IF x = q THEN letter ELSE answers[x]]

\* The loop that counts every answered question.
ScoreOfAnswered(quiz, answers) ==
    Cardinality({q \in 1..quiz.questions : q \in DOMAIN answers})

\* the loop of submit_quiz that counts the answers equal to correct_option
ScoreOf(quiz, answers) ==
    Cardinality({q \in 1..quiz.questions :
                    q \in DOMAIN answers /\ answers[q] = CorrectOption})

SessFrame == UNCHANGED <<mcq_vars, sec_vars, topic_stats_cache, stats_ret, api_vars, rest_vars>>

\* The reset that leaves show_explanations as it is.
ResetQuizKeepsExplanations ==
    /\ current_quiz' = NoQuiz
    /\ user_answers' = NoAnswers
    /\ quiz_score' = NoScore
    /\ UNCHANGED show_explanations

ResetQuiz ==
    /\ current_quiz' = NoQuiz
    /\ user_answers' = NoAnswers
    /\ quiz_score' = NoScore
    /\ show_explanations' = FALSE

SessInit ==
    /\ sess_impl \in {"final", "app"}
    /\ session_user = None
    /\ current_quiz = NoQuiz
    /\ user_answers = NoAnswers
    /\ quiz_score = NoScore
    /\ show_explanations = FALSE
    /\ started = {}
    /\ submitted = {}

\* The login form accepted the credentials of user.
Login(user) ==
    /\ session_user = None
    /\ session_user' = user
    /\ UNCHANGED <<sess_impl, current_quiz, user_answers, quiz_score, show_explanations,
                   started, submitted, quiz_history, clock, n_submitted>>
    /\ SessFrame

\* The Start Quiz button: final.py shows it when there is no current quiz, app.py
\* on the Available Quizzes tab at any time.  In app.py the rerun draws a radio
\* per question, which stores its first option as the answer.
StartQuiz(topic, size) ==
    /\ session_user # None
    /\ Cardinality(started) < MaxStarted
    /\ sess_impl = "final" => ~current_quiz.active
    /\ current_quiz' = [active |-> TRUE, topic |-> topic, questions |-> size,
                        start_time |-> clock]
    /\ user_answers' = IF sess_impl = "app" THEN [q \in 1..size |-> "a"] ELSE NoAnswers
    /\ quiz_score' = NoScore
    /\ show_explanations' = FALSE
    /\ started' = started \cup {clock}
    /\ clock' = clock + 1
    /\ UNCHANGED <<sess_impl, session_user, submitted, quiz_history, n_submitted>>
    /\ SessFrame

\* An answer widget that is drawn for every question of a quiz not submitted yet.
AnswerAnyQuestion(q, letter) ==
    /\ current_quiz.active
    /\ q \in 1..current_quiz.questions
    /\ ~quiz_score.set
    /\ user_answers' = Put(user_answers, q, letter)
    /\ UNCHANGED <<sess_impl, session_user, current_quiz, quiz_score, show_explanations,
                   started, submitted, quiz_history, clock, n_submitted>>
    /\ SessFrame

\* final.py: Submit Answer of a question not answered yet.  app.py: a radio of a
\* quiz not submitted yet is set.
AnswerQuestion(q, letter) ==
    /\ current_quiz.active
    /\ q \in 1..current_quiz.questions
    /\ IF sess_impl = "final" THEN q \notin DOMAIN user_answers ELSE ~quiz_score.set
    /\ user_answers' = Put(user_answers, q, letter)
    /\ UNCHANGED <<sess_impl, session_user, current_quiz, quiz_score, show_explanations,
                   started, submitted, quiz_history, clock, n_submitted>>
    /\ SessFrame

\* The Submit Quiz button is drawn whatever the score.
SubmitShownAlways == current_quiz.active

\* The Submit Quiz button is drawn (final.py 2218-2220, app.py 704-705).
SubmitShown ==
    /\ current_quiz.active
    /\ ~quiz_score.set
    /\ sess_impl = "final"
         => Cardinality(DOMAIN user_answers) = current_quiz.questions

\* Submit Quiz: submit_quiz; inserted tells whether insert_one went through (if
\* not, final.py returns False and app.py raises: the session is as before).
SubmitQuiz(inserted) ==
    /\ SubmitShown
    /\ IF inserted
       THEN /\ quiz_history' =
                 Append(quiz_history,
                        Attempt(session_user, current_quiz.topic,
                                ScoreOf(current_quiz, user_answers),
                                current_quiz.questions, current_quiz.start_time, clock))
            /\ quiz_score' =
                 [set |-> TRUE,
                  score |-> ScoreOf(current_quiz, user_answers),
                  total |-> current_quiz.questions,
                  percentage |-> ScorePercentage(ScoreOf(current_quiz, user_answers),
                                                 current_quiz.questions)]
            /\ show_explanations' = (sess_impl = "final")
            /\ submitted' = submitted \cup {current_quiz.start_time}
            /\ clock' = clock + 1
            /\ n_submitted' = n_submitted + 1
       ELSE UNCHANGED <<quiz_history, quiz_score, show_explanations, submitted, clock,
                        n_submitted>>
    /\ UNCHANGED <<sess_impl, session_user, current_quiz, user_answers, started>>
    /\ SessFrame

\* final.py: the explanations checkbox of a scored quiz is toggled.  app.py: the
\* Show Explanations button of a scored quiz.
ShowExplanations ==
    /\ current_quiz.active /\ quiz_score.set
    /\ sess_impl = "app" => ~show_explanations
    /\ show_explanations' = ~show_explanations
    /\ UNCHANGED <<sess_impl, session_user, current_quiz, user_answers, quiz_score,
                   started, submitted, quiz_history, clock, n_submitted>>
    /\ SessFrame

\* final.py: Cancel Quiz
CancelQuiz ==
    /\ sess_impl = "final" /\ current_quiz.active
    /\ ResetQuiz
    /\ UNCHANGED <<sess_impl, session_user, started, submitted, quiz_history, clock,
                   n_submitted>>
    /\ SessFrame

\* Take Another Quiz (final.py), Start New Quiz (app.py)
NewQuiz ==
    /\ current_quiz.active /\ quiz_score.set
    /\ ResetQuiz
    /\ UNCHANGED <<sess_impl, session_user, started, submitted, quiz_history, clock,
                   n_submitted>>
    /\ SessFrame

\* logout()
Logout ==
    /\ session_user # None
    /\ session_user' = None
    /\ ResetQuiz
    /\ UNCHANGED <<sess_impl, started, submitted, quiz_history, clock, n_submitted>>
    /\ SessFrame

SessNext ==
    \/ \E user \in {"u1"} : Login(user)
    \/ \E topic \in QuizTopics, size \in QuizSizes : StartQuiz(topic, size)
    \/ \E q \in 1..2, letter \in Letters : AnswerQuestion(q, letter)
    \/ \E inserted \in BOOLEAN : SubmitQuiz(inserted)
    \/ ShowExplanations
    \/ CancelQuiz
    \/ NewQuiz
    \/ Logout

SessSpecInit == SessInit /\ McqInit /\ SecIdle /\ StatIdle /\ ApiIdle /\ RestIdle

SpecSession == SessSpecInit /\ [][SessNext]_vars

\* The records of the collection of the quiz started at t.
RecordsOf(t) == {i \in DOMAIN quiz_history : quiz_history[i].start_time = t}

OneRecordPerQuiz ==
    /\ \A t \in started :
          /\ Cardinality(RecordsOf(t)) <= 1
          /\ t \in submitted => Cardinality(RecordsOf(t)) = 1
    /\ \A i \in DOMAIN quiz_history : quiz_history[i].start_time \in started

RecordsKept ==
    \A i \in DOMAIN quiz_history :
        i \in DOMAIN quiz_history' /\ quiz_history'[i] = quiz_history[i]

\* C13: across any sequence of start, answer, submit, show-explanations, cancel,
\* new-quiz and logout actions in a session, each started quiz produces at most
\* one attempt record in the history collection (exactly one if it is
\* submitted), and no action changes or removes a record once inserted.
C13_OneRecordPerQuiz == []OneRecordPerQuiz /\ [][RecordsKept]_vars

\* Two quizzes were started, one was submitted and scored, the other one was
\* left, and the user logged out.
C13_Witness ==
    /\ Cardinality(started) = 2
    /\ Cardinality(submitted) = 1
    /\ Len(quiz_history) = 1
    /\ session_user = None

(***************************************************************************)
(* call_gemini_api (final.py 107-148, app.py 52-80) and what its callers   *)
(* do with the value it returns.                                           *)
(***************************************************************************)
\* What one requests.post can come to: a status, a 200 whose body is not JSON
\* (response.json() raises), or an exception of requests.
Outcomes == {"200", "200_not_json", "429", "500", "exception"}

CallPaths(impl) ==
    IF impl = "final"
    THEN {"generate_questions", "explanation", "quiz_analysis", "user_analysis",
          "topic_explorer", "topic_recommendations"}
    ELSE {"generate_questions", "explanation"}

Request(outcome) == [ev |-> "request", outcome |-> outcome]
Sleep(seconds) == [ev |-> "sleep", seconds |-> seconds]
StError == [ev |-> "st.error"]

RECURSIVE Pow2(_)
Pow2(n) == IF n = 0 THEN 1 ELSE 2 * Pow2(n - 1)

\* range(3)
Attempts == 3

ApiFrame == UNCHANGED <<mcq_vars, sec_vars, stat_vars, sess_vars, rest_vars>>

ApiInit ==
    /\ api_impl \in {"final", "app"}
    /\ api_caller = None
    /\ api_pc = "idle"
    /\ api_attempt = 0
    /\ api_log = <<>>
    /\ api_ret = None
    /\ ui_failure = FALSE

\* A call path calls call_gemini_api(prompt).
CallGeminiApi(caller) ==
    /\ api_pc = "idle"
    /\ caller \in CallPaths(api_impl)
    /\ api_caller' = caller
    /\ api_pc' = "loop"
    /\ api_attempt' = 0
    /\ api_log' = <<>>
    /\ api_ret' = None
    /\ ui_failure' = FALSE
    /\ UNCHANGED api_impl
    /\ ApiFrame

\* What one pass of the loop of final.py 126-146 adds to the log.
LoopPass(attempt, outcome) ==
    <<Request(outcome)>> \o
    (IF outcome = "200" THEN <<>>
     ELSE IF outcome = "429" THEN <<Sleep(Pow2(attempt))>>
     ELSE IF outcome = "500" THEN <<StError>>
     ELSE <<StError>> \o (IF attempt < 2 THEN <<Sleep(Pow2(attempt))>> ELSE <<>>))

\* The pass returns (200, or a status that is neither 200 nor 429).
PassReturns(outcome) == outcome \in {"200", "500"}

\* The pass goes on to the next one even after a status other than 429.
PassReturnsOn200Only(outcome) == outcome = "200"

\* One pass of the loop in final.py; the only request in app.py.
SendRequest(outcome) ==
    /\ api_pc = "loop"
    /\ IF api_impl = "final"
       THEN /\ api_log' = api_log \o LoopPass(api_attempt, outcome)
            /\ api_attempt' = api_attempt + 1
            /\ api_pc' = IF PassReturns(outcome) \/ api_attempt + 1 = Attempts
                         THEN "returned" ELSE "loop"
            /\ api_ret' = IF outcome = "200" THEN "payload" ELSE None
            /\ ui_failure' = (ui_failure \/ outcome \in {"500", "200_not_json", "exception"})
       ELSE /\ api_log' = api_log \o <<Request(outcome)>>
                            \o (IF outcome \in {"429", "500"} THEN <<StError>> ELSE <<>>)
            /\ api_attempt' = api_attempt
            /\ api_pc' = IF outcome \in {"200_not_json", "exception"}
                         THEN "raised" ELSE "returned"
            /\ api_ret' = IF outcome = "200" THEN "payload" ELSE None
            \* an exception that no caller catches is drawn on the page
            /\ ui_failure' = (outcome # "200")
    /\ UNCHANGED <<api_impl, api_caller>>
    /\ ApiFrame

\* The caller shows a message of its own when the call returned None.
CallerShowsFailure(impl, caller) ==
    IF impl = "final"
    THEN caller \in {"generate_questions", "explanation", "topic_explorer"}
    ELSE caller = "explanation"

\* The caller goes on with what call_gemini_api returned.
CallerHandles ==
    /\ api_pc = "returned"
    /\ api_pc' = "handled"
    /\ ui_failure' = (ui_failure \/ (api_ret = None /\ CallerShowsFailure(api_impl, api_caller)))
    /\ UNCHANGED <<api_impl, api_caller, api_attempt, api_log, api_ret>>
    /\ ApiFrame

ApiNext ==
    \/ \E caller \in CallPaths("final") : CallGeminiApi(caller)
    \/ \E outcome \in Outcomes : SendRequest(outcome)
    \/ CallerHandles

ApiSpecInit == ApiInit /\ McqInit /\ SecIdle /\ StatIdle /\ SessIdle /\ RestIdle

SpecApi == ApiSpecInit /\ [][ApiNext]_vars

(***************************************************************************)
(* Claims about call_gemini_api.                                           *)
(***************************************************************************)
RequestsSent == SelectSeq(api_log, LAMBDA e : e.ev = "request")

DelaysSlept ==
    LET sleeps == SelectSeq(api_log, LAMBDA e : e.ev = "sleep")
    IN  [i \in DOMAIN sleeps |-> sleeps[i].seconds]

IsPrefixOf(a, b) == Len(a) <= Len(b) /\ SubSeq(b, 1, Len(a)) = a

ApiCallOver == api_pc \in {"returned", "raised", "handled"}

\* C14: call_gemini_api retries transient failures (status 429, request
\* exceptions) with bounded exponential backoff: it sends at most 3 requests per
\* call with delays 1, 2, 4 seconds, never retries after a 200 or after an error
\* status other than 429, and always ends returning the response payload or None.
C14_BoundedRetry ==
    /\ Len(RequestsSent) <= 3
    /\ IsPrefixOf(DelaysSlept, <<1, 2, 4>>)
    /\ \A i, j \in DOMAIN api_log :
          (/\ i < j
           /\ api_log[i].ev = "request"
           /\ api_log[i].outcome \in {"200", "200_not_json", "500"})
            => api_log[j].ev # "request"
    /\ api_pc # "raised"
    /\ api_pc \in {"returned", "handled"} => api_ret \in {"payload", None}
    /\ (/\ ApiCallOver
        /\ RequestsSent[Len(RequestsSent)].outcome \in {"429", "exception"})
         => Len(RequestsSent) = 3

\* Every attempt of the call failed the same transient way.
Exhausted ==
    /\ Len(RequestsSent) = 3
    /\ \/ \A i \in 1..3 : RequestsSent[i].outcome = "429"
       \/ \A i \in 1..3 : RequestsSent[i].outcome = "exception"

\* C15: whenever every attempt of a text-generation call is exhausted (three
\* 429 responses or three exceptions), a user-facing failure is surfaced for
\* that request on every call path: question generation, answer explanation,
\* admin quiz analysis, user analysis and topic recommendations.
C15_FailureSurfaced == (api_pc = "handled" /\ Exhausted) => ui_failure

(***************************************************************************)
(* Specification SpecMcqText: parse_mcq_response on free text, line by     *)
(* line, with lines that carry several markers, a repeated letter, and a   *)
(* number followed by '|'.                                                 *)
(***************************************************************************)
ML7 == <<"2", "|", " ", "R">>
ML8 == <<"b", ")", " ", "*", "z", "*">>

McqTextLines == {ML1, ML3, ML4, ML5, ML7, ML8}

McqTextNext ==
    \/ \E l \in McqTextLines : AppendLine(l)
    \/ CallParseFinal
    \/ CallParseApp

SpecMcqText == McqSpecInit /\ [][McqTextNext]_vars

\* The text was parsed without an exception.
TextParsed == McqParsed /\ response.shape = "text" /\ ~mcq_raised

\* The block the k-th emitted question comes from, and its lines.
EmittedBlock(k) ==
    LET blocks == QuestionBlocks(response.text)
    IN  blocks[NthOf({i \in DOMAIN blocks : BlockWellFormed(blocks[i])}, k)]

\* The option lines of a block (stripped), in order.
OptionLinesOf(block) ==
    LET lines == BlockLines(block)
        idx == {i \in 2..Len(lines) : IsOptionLine(lines[i])}
    IN  [j \in 1..Cardinality(idx) |-> Strip(lines[NthOf(idx, j)])]

LetterOfLine(line) == LowerChar(line[1])

CapturedText(line) == Strip(SubSeq(line, OptionTextStart(line), Len(line)))

\* C16: when several option lines of one block carry a correct marker, the
\* letter of the last marked option line in the block is the block's
\* correct_option.
C16_LastMarkerWins ==
    TextParsed =>
        \A k \in DOMAIN questions :
            LET ols == OptionLinesOf(EmittedBlock(k))
                marked == {j \in DOMAIN ols : IsMarkedCorrect(CapturedText(ols[j]))}
            IN  Cardinality(marked) >= 2
                  => questions[k].correct_option = LetterOfLine(ols[SetMax(marked)])

\* A question was emitted from a block whose first marked line has another
\* letter than its last marked line.
C16_Witness ==
    /\ TextParsed
    /\ \E k \in DOMAIN questions :
          LET ols == OptionLinesOf(EmittedBlock(k))
              marked == {j \in DOMAIN ols : IsMarkedCorrect(CapturedText(ols[j]))}
          IN  /\ Cardinality(marked) >= 2
              /\ LetterOfLine(ols[SetMin(marked)]) # LetterOfLine(ols[SetMax(marked)])
              /\ questions[k].correct_option = LetterOfLine(ols[SetMax(marked)])

HasAsterisk(t) == \E i \in DOMAIN t : t[i] = "*"

HasCorrectWord(t) ==
    \E i \in 1..(Len(t) - 6) :
        [j \in 1..7 |-> LowerChar(t[i + j - 1])] = <<"c", "o", "r", "r", "e", "c", "t">>

\* C17: an option line marks its letter as the block's correct option exactly
\* when its captured text contains an asterisk or, in any case of letters, the
\* substring 'correct'; then every asterisk is removed from the stored option
\* text, so no option text of an emitted question contains an asterisk.
C17_MarkerAndAsterisk ==
    TextParsed =>
        \A k \in DOMAIN questions :
            LET ols == OptionLinesOf(EmittedBlock(k))
                marking == {j \in DOMAIN ols :
                              HasAsterisk(CapturedText(ols[j]))
                                \/ HasCorrectWord(CapturedText(ols[j]))}
            IN  /\ Len(questions[k].options) = Len(ols)
                /\ marking # {}
                /\ questions[k].correct_option = LetterOfLine(ols[SetMax(marking)])
                /\ \A j \in DOMAIN ols :
                      /\ ~HasAsterisk(questions[k].options[j].text)
                      /\ questions[k].options[j].text
                           = IF j \in marking
                             THEN Strip(RemoveChar(CapturedText(ols[j]), "*"))
                             ELSE CapturedText(ols[j])

\* A question was emitted whose correct option was marked by the word alone and
\* one of whose stored option texts lost its asterisks.
C17_Witness ==
    /\ TextParsed
    /\ \E k \in DOMAIN questions :
          LET ols == OptionLinesOf(EmittedBlock(k))
          IN  /\ \E j \in DOMAIN ols :
                    /\ HasCorrectWord(CapturedText(ols[j]))
                    /\ ~HasAsterisk(CapturedText(ols[j]))
                    /\ questions[k].correct_option = LetterOfLine(ols[j])
              /\ \E j \in DOMAIN ols :
                    /\ HasAsterisk(CapturedText(ols[j]))
                    /\ questions[k].options[j].text # CapturedText(ols[j])

\* A line that begins, after optional whitespace, with an integer followed by
\* '.' or ')'.
IsQuestionStart(line) ==
    LET p == SkipSpace(line, 1)
        q == SkipDigits(line, p)
    IN  q > p /\ q <= Len(line) /\ line[q] \in {".", ")"}

AfterMarker(line) == SubSeq(line, SkipDigits(line, SkipSpace(line, 1)) + 1, Len(line))

RECURSIVE JoinLines(_)
JoinLines(ls) ==
    IF ls = <<>> THEN <<>>
    ELSE IF Len(ls) = 1 THEN ls[1]
    ELSE ls[1] \o <<"\n">> \o JoinLines(Tail(ls))

\* The blocks of a text when a block starts at each question-start line, and
\* nowhere else; the lines before the first one belong to no block.
LineBlocks(text) ==
    LET lines == SplitLines(text)
        starts == {i \in DOMAIN lines : IsQuestionStart(lines[i])}
    IN  [k \in 1..Cardinality(starts) |->
            LET i == NthOf(starts, k)
                later == {j \in starts : j > i}
                last == IF later = {} THEN Len(lines) ELSE SetMin(later) - 1
            IN  JoinLines(<<AfterMarker(lines[i])>> \o SubSeq(lines, i + 1, last))]

\* C18: parse_mcq_response starts a new block exactly at each line that begins
\* (after optional whitespace) with an integer followed by '.' or ')', and at
\* no other line; text before the first such line contributes to no emitted
\* question.
C18_BlockStarts ==
    TextParsed => questions = ParseBlocks(LineBlocks(response.text))

\* C19: when a block contains two option lines with the same letter, the
\* emitted question holds a single option for that letter, namely the last one
\* seen.
C19_LastSeenWins ==
    TextParsed =>
        \A k \in DOMAIN questions :
            LET ols == OptionLinesOf(EmittedBlock(k))
            IN  \A j \in DOMAIN ols :
                   LET same == {i \in DOMAIN questions[k].options :
                                  questions[k].options[i].letter = LetterOfLine(ols[j])}
                       seen == {i \in DOMAIN ols : LetterOfLine(ols[i]) = LetterOfLine(ols[j])}
                   IN  /\ Cardinality(same) = 1
                       /\ \A i \in same :
                             questions[k].options[i].text
                               = Strip(RemoveChar(CapturedText(ols[SetMax(seen)]), "*"))

(***************************************************************************)
(* A heading transition of the section loop.                               *)
(***************************************************************************)
\* The loop has just read a line that is one of the configured headings.
HeadingRead ==
    /\ sec_pc = "loop"
    /\ Len(analysis_lines') = Len(analysis_lines) + 1
    /\ analysis_lines'[Len(analysis_lines')] \in HeadingLines(sec_fn)

HeadingIndex(fn, line) == CHOOSE j \in 1..NumHeadings(fn) : HeadingTable(fn)[j].exact = line

\* The buffered lines are stored under the section that was active, the cursor
\* is on the heading's key, and the buffer is empty.
FlushedAndSwitched ==
    LET heading == analysis_lines'[Len(analysis_lines')]
    IN  /\ (current_section # None /\ section_content # <<>>)
              => sections'[current_section] = section_content
        /\ current_section' = KeyOf(sec_fn, HeadingIndex(sec_fn, heading))
        /\ section_content' = <<>>

\* C20: on every heading transition, for every configured heading including the
\* first one, the lines buffered for the previously active section are stored
\* under that section's key before the cursor switches and the buffer is reset,
\* and the heading line itself is not added to any buffer.
C20_FlushOnHeading == [][HeadingRead => FlushedAndSwitched]_vars

(***************************************************************************)
(* Specification SpecSectionText: the section loop on free text of a few   *)
(* lines: the first two headings (in any order, repeated), a bullet, two   *)
(* numbered lines and plain text.                                          *)
(***************************************************************************)
bFirstItem == <<"1", ".", " ", "a">>

MaxSectionLines == 5

SectionTextLines(fn) ==
    {HeadingTable(fn)[1].exact, HeadingTable(fn)[2].exact, bBullet, bFirstItem, bNumbered, bPlain}

\* One iteration of the loop, on the next line l of a free text.
ReadSectionLine(l) ==
    /\ sec_pc = "loop"
    /\ Len(analysis_lines) < MaxSectionLines
    /\ analysis_lines' = Append(analysis_lines, l)
    /\ LET st == SectionStep(sec_fn,
                             [sections |-> sections,
                              current_section |-> current_section,
                              section_content |-> section_content,
                              raised |-> FALSE], l)
       IN  /\ sections' = st.sections
           /\ current_section' = st.current_section
           /\ section_content' = st.section_content
           /\ sec_pc' = IF st.raised THEN "error" ELSE "loop"
    /\ UNCHANGED sec_fn
    /\ SecFrame

SectionTextNext ==
    \/ \E l \in SectionTextLines(sec_fn) : ReadSectionLine(l)
    \/ ReturnAnalysis

SpecSectionText == SecSpecInit /\ [][SectionTextNext]_vars

\* The line makes the loop recognise a section when none is current: it takes a
\* heading branch, or it starts with "1.".
RecognisesSection(fn, l) ==
    \/ HeadingBranch(fn, Strip(l)) > 0
    \/ StartsWith(Strip(l), <<"1", ".">>)

\* The number of lines before the first line that recognises a section.
EarlyCount(fn, lines) ==
    LET R == {k \in DOMAIN lines : RecognisesSection(fn, lines[k])}
    IN  IF R = {} THEN Len(lines) ELSE SetMin(R) - 1

Occurrences(t, lines) == Cardinality({i \in DOMAIN lines : Strip(lines[i]) = t})

\* How often the line t stands in the sections of the result.
StoredOccurrences(t) ==
    Cardinality({p \in UNION {{<<k, i>> : i \in DOMAIN sections[k]} : k \in DOMAIN sections} :
                   sections[p[1]][p[2]] = t})

\* C21: the lines of the analysis text that occur before any section has been
\* recognised (bullet and numbered lines included) appear in no section of the
\* result: a section holds such a line only as often as the line occurs again
\* from the recognising line on.
C21_EarlyLinesDropped ==
    sec_pc = "done" =>
        LET early == EarlyCount(sec_fn, analysis_lines)
            late == SubSeq(analysis_lines, early + 1, Len(analysis_lines))
        IN  \A k \in 1..early :
                StoredOccurrences(Strip(analysis_lines[k])) <= Occurrences(Strip(analysis_lines[k]), late)

\* A text with a bullet or numbered line before its first section, and a section
\* with content in the result.
C21_Witness ==
    /\ sec_pc = "done"
    /\ EarlyCount(sec_fn, analysis_lines) >= 1
    /\ \E k \in 1..EarlyCount(sec_fn, analysis_lines) : BulletTest(Strip(analysis_lines[k])) = "true"
    /\ \E k \in DOMAIN sections : sections[k] # <<>>

(***************************************************************************)
(* The rolling trend of a user's scores.                                   *)
(***************************************************************************)
\* The score_percentage values of the page's user, ascending by end_time, read
\* from the collection document by document.
UserScoresAscending ==
    LET idx == AttemptsBy(stats_ret.user_id)
    IN  [k \in 1..Cardinality(idx) |->
            quiz_history[CHOOSE i \in idx :
                            Cardinality({j \in idx : quiz_history[j].end_time
                                                       < quiz_history[i].end_time}) = k - 1
                        ].score_percentage]

\* C22: for a user with at least 5 attempts, rolling_trend equals the 3-attempt
\* trailing moving average of score_percentage at the most recent attempt minus
\* the same moving average at the third-earliest attempt, the attempts sorted
\* ascending by end_time.
C22_RollingTrend ==
    (UserPage /\ Cardinality(AttemptsBy(stats_ret.user_id)) >= 5) =>
        LET y == UserScoresAscending
            n == Len(y)
            trend == stats_ret.user_stats.rolling_trend
        IN  /\ stats_ret.user_stats.has_data
            /\ ~trend.null
            /\ 3 * trend.value.num
                 = ((y[n] + y[n - 1] + y[n - 2]) - (y[1] + y[2] + y[3])) * trend.value.den

\* The page of a user with 5 attempts whose trend is not zero and whose first
\* three scores differ from one another.
C22_Witness ==
    /\ UserPage
    /\ Cardinality(AttemptsBy(stats_ret.user_id)) >= 5
    /\ ~stats_ret.user_stats.rolling_trend.null
    /\ stats_ret.user_stats.rolling_trend.value.num # 0
    /\ UserScoresAscending[1] # UserScoresAscending[2]
    /\ UserScoresAscending[2] # UserScoresAscending[3]

(***************************************************************************)
(* Specification SpecHistory: two browser sessions of one server process   *)
(* log in, submit quizzes and open the Quiz History tab of final.py.       *)
(* st.cache_data keys an entry by the function and its arguments, and is   *)
(* shared by the sessions of the process.                                  *)
(***************************************************************************)
HistoryUsers == {"u1", "u2"}

MaxHistoryAttempts == 2

HistFrame ==
    UNCHANGED <<mcq_vars, sec_vars, sess_vars, api_vars, topic_stats_cache, stats_ret, acct_vars,
                reg_vars, qdb_vars>>

\* login_user succeeded in session s: st.session_state.user_id = user["_id"].
SessionLogin(s, u) ==
    /\ browser_user_id[s] = None
    /\ browser_user_id' = [browser_user_id EXCEPT ![s] = u]
    /\ UNCHANGED <<history_cache, history_ret, quiz_history, clock, n_submitted>>
    /\ HistFrame

\* logout() in session s.
SessionLogout(s) ==
    /\ browser_user_id[s] # None
    /\ browser_user_id' = [browser_user_id EXCEPT ![s] = None]
    /\ UNCHANGED <<history_cache, history_ret, quiz_history, clock, n_submitted>>
    /\ HistFrame

\* submit_quiz in session s: insert_one of the attempt of the session's user.
SessionSubmit(s, score) ==
    /\ browser_user_id[s] # None
    /\ n_submitted < MaxHistoryAttempts
    /\ quiz_history' = Append(quiz_history,
                              Attempt(browser_user_id[s], "t1", score, 2, clock, clock + 1))
    /\ clock' = clock + 1
    /\ n_submitted' = n_submitted + 1
    /\ UNCHANGED <<browser_user_id, history_cache, history_ret>>
    /\ HistFrame

\* find({"user_id": st.session_state.user_id}).sort("end_time", -1) in session s
FindUserHistory(s) == SortByEndTime(FindByUser(quiz_history, browser_user_id[s]), TRUE)

\* get_user_quiz_history() under @st.cache_data(ttl=30): the function has no
\* argument, so the entry's key is the same in every session; the stored value
\* if there is one, else the query's result, which is stored.
get_user_quiz_history(s) ==
    IF history_cache.stored THEN history_cache.value ELSE FindUserHistory(s)

\* The Quiz History tab of session s calls get_user_quiz_history().
ViewQuizHistory(s) ==
    /\ browser_user_id[s] # None
    /\ history_ret' = [kind |-> "history", session |-> s, user_id |-> browser_user_id[s],
                       value |-> get_user_quiz_history(s)]
    /\ history_cache' = Entry(get_user_quiz_history(s))
    /\ UNCHANGED <<browser_user_id, quiz_history, clock, n_submitted>>
    /\ HistFrame

\* The entry is older than 30 seconds, or st.cache_data.clear() ran.
ExpireHistoryCache ==
    /\ history_cache.stored
    /\ history_cache' = NoEntry
    /\ UNCHANGED <<browser_user_id, history_ret, quiz_history, clock, n_submitted>>
    /\ HistFrame

HistInit ==
    /\ McqInit /\ SecIdle /\ StatIdle /\ SessIdle /\ ApiIdle
    /\ HistIdle /\ AcctIdle /\ RegIdle /\ QdbIdle

HistNext ==
    \/ \E s \in Sessions, u \in HistoryUsers : SessionLogin(s, u)
    \/ \E s \in Sessions : SessionLogout(s)
    \/ \E s \in Sessions, score \in {0, 2} : SessionSubmit(s, score)
    \/ \E s \in Sessions : ViewQuizHistory(s)
    \/ ExpireHistoryCache

SpecHistory == HistInit /\ [][HistNext]_vars

\* C23: for any interleaving of sessions of different logged-in users,
\* get_user_quiz_history called in a session returns only attempt records whose
\* user_id equals that session's user_id.
C23_OwnHistoryOnly ==
    history_ret.kind = "history" =>
        \A i \in DOMAIN history_ret.value :
            history_ret.value[i].user_id = history_ret.user_id

(***************************************************************************)
(* Specification SpecAccount: one browser session in which users log in,   *)
(* work and log out one after another.  Administrators generate, save and  *)
(* edit questions; users start quizzes and (app.py) open the details of an *)
(* entry of their history.                                                 *)
(***************************************************************************)
Admins == {"a1", "a2"}
QuizTakers == {"u1", "u2"}

RoleOf(u) == IF u \in Admins THEN "Admin" ELSE "User"

QuestionIds == {"q1"}

AcctFrame == UNCHANGED <<mcq_vars, sec_vars, stat_vars, api_vars, hist_vars, reg_vars, qdb_vars>>

QuizStateKept ==
    UNCHANGED <<sess_impl, current_quiz, user_answers, quiz_score, show_explanations,
                started, submitted>>

\* The login form: login_user succeeded for u.
AccountLogin(u) ==
    /\ ~logged_in
    /\ logged_in' = TRUE
    /\ session_user' = u
    /\ username' = u
    /\ role' = RoleOf(u)
    /\ UNCHANGED <<generated_questions, selected_question_id, editing_question,
                   selected_quiz_history>>
    /\ QuizStateKept
    /\ AcctFrame

\* Generate Questions of the admin page stored the parsed questions and the topic.
GenerateQuestions(topic) ==
    /\ logged_in /\ role = "Admin"
    /\ generated_questions' = [present |-> TRUE, topic |-> topic, by |-> session_user]
    /\ UNCHANGED <<logged_in, session_user, username, role, selected_question_id,
                   editing_question, selected_quiz_history>>
    /\ QuizStateKept
    /\ AcctFrame

\* Save Questions to Database, shown with the preview: the two keys are deleted.
SaveGeneratedQuestions ==
    /\ logged_in /\ role = "Admin"
    /\ generated_questions.present
    /\ generated_questions' = NoDraft
    /\ UNCHANGED <<logged_in, session_user, username, role, selected_question_id,
                   editing_question, selected_quiz_history>>
    /\ QuizStateKept
    /\ AcctFrame

\* The Edit button of a stored question.
EditQuestion(id) ==
    /\ logged_in /\ role = "Admin"
    /\ selected_question_id' = id
    /\ editing_question' = TRUE
    /\ UNCHANGED <<logged_in, session_user, username, role, generated_questions,
                   selected_quiz_history>>
    /\ QuizStateKept
    /\ AcctFrame

\* Update Question succeeded, or Cancel Editing.
CloseEditing ==
    /\ logged_in /\ role = "Admin"
    /\ selected_question_id # None /\ editing_question
    /\ selected_question_id' = None
    /\ editing_question' = FALSE
    /\ UNCHANGED <<logged_in, session_user, username, role, generated_questions,
                   selected_quiz_history>>
    /\ QuizStateKept
    /\ AcctFrame

\* app.py: View Details of an entry of the user's own history.
ViewHistoryDetails(i) ==
    /\ sess_impl = "app"
    /\ logged_in /\ role = "User"
    /\ i \in DOMAIN quiz_history /\ quiz_history[i].user_id = session_user
    /\ selected_quiz_history' = [selected |-> TRUE, quiz |-> quiz_history[i]]
    /\ UNCHANGED <<logged_in, session_user, username, role, generated_questions,
                   selected_question_id, editing_question>>
    /\ QuizStateKept
    /\ AcctFrame

\* app.py: Close Details.
CloseHistoryDetails ==
    /\ sess_impl = "app"
    /\ logged_in /\ role = "User"
    /\ selected_quiz_history.selected
    /\ selected_quiz_history' = NoSelection
    /\ UNCHANGED <<logged_in, session_user, username, role, generated_questions,
                   selected_question_id, editing_question>>
    /\ QuizStateKept
    /\ AcctFrame

\* A user starts a quiz.
AccountStartQuiz(topic, size) ==
    /\ logged_in /\ role = "User"
    /\ StartQuiz(topic, size)

\* logout(): the nine assignments.
AccountLogout ==
    /\ logged_in
    /\ logged_in' = FALSE
    /\ session_user' = None
    /\ username' = None
    /\ role' = None
    /\ ResetQuiz
    /\ selected_question_id' = None
    /\ UNCHANGED <<generated_questions, editing_question, selected_quiz_history>>
    /\ UNCHANGED <<sess_impl, started, submitted>>
    /\ AcctFrame

\* Both quiz takers have an attempt on record.
AcctInit ==
    /\ McqInit /\ SecIdle /\ ApiIdle /\ HistIdle /\ AcctIdle /\ RegIdle /\ QdbIdle
    /\ SessInit
    /\ quiz_history = <<Attempt("u1", "t1", 1, 2, 1, 2), Attempt("u2", "t1", 2, 2, 2, 3)>>
    /\ clock = 4
    /\ n_submitted = 0
    /\ topic_stats_cache = NoEntry
    /\ stats_ret = NoCall

AcctNext ==
    \/ \E u \in Admins \cup QuizTakers : AccountLogin(u)
    \/ \E topic \in {"t1", "t2"} : GenerateQuestions(topic)
    \/ SaveGeneratedQuestions
    \/ \E id \in QuestionIds : EditQuestion(id)
    \/ CloseEditing
    \/ \E i \in 1..2 : ViewHistoryDetails(i)
    \/ CloseHistoryDetails
    \/ \E topic \in QuizTopics, size \in QuizSizes : AccountStartQuiz(topic, size)
    \/ AccountLogout

SpecAccount == AcctInit /\ [][AcctNext]_vars

\* The preview of the generated questions is drawn (final.py 1974, app.py 469).
DraftVisible == logged_in /\ role = "Admin" /\ generated_questions.present

\* The edit form is drawn (final.py 2060, app.py 532).
EditFormVisible ==
    logged_in /\ role = "Admin" /\ selected_question_id # None /\ editing_question

\* The details of the selected history entry are drawn (app.py 727, 787).
HistoryDetailsVisible ==
    /\ sess_impl = "app"
    /\ logged_in /\ role = "User"
    /\ FindByUser(quiz_history, session_user) # <<>>
    /\ selected_quiz_history.selected

\* After logout the fields of the session are reset.
LoggedOutReset ==
    ~logged_in =>
        /\ session_user = None /\ username = None /\ role = None
        /\ ~current_quiz.active /\ ~quiz_score.set /\ user_answers = NoAnswers

\* What the logged-in user sees of drafts and selections is their own.
SeesOwnStateOnly ==
    /\ DraftVisible => generated_questions.by = session_user
    /\ HistoryDetailsVisible => selected_quiz_history.quiz.user_id = session_user

\* The user who logs in does not find an edit form open.
NoEditFormAtLogin == [][(~logged_in /\ logged_in') => ~EditFormVisible']_vars

\* C24: after logout the session holds no state produced by the previous user's
\* activity: logged_in is false, user_id, username, role, current_quiz and
\* quiz_score are None, user_answers is empty, and no generated-question draft,
\* draft topic, edit selection or selected history entry of the previous user is
\* visible to the next user who logs in within the same session.
C24_LogoutClearsSession ==
    /\ [](LoggedOutReset /\ SeesOwnStateOnly)
    /\ NoEditFormAtLogin

(***************************************************************************)
(* Specification SpecRegister: register_user called from two sessions.     *)
(* A call is two steps, find_one and insert_one, and the steps of the two  *)
(* sessions interleave.  final.py creates a unique index on username, so   *)
(* its insert_one of a second document with the username raises, which the *)
(* function catches; app.py creates no index.                              *)
(***************************************************************************)
Usernames == {"amy", "bob", "al"}

MaxRegistrations == 3

\* len(username)
NameLength(name) == IF name = "al" THEN 2 ELSE 3

RegFrame ==
    UNCHANGED <<mcq_vars, sec_vars, stat_vars, sess_vars, api_vars, hist_vars, acct_vars, qdb_vars>>

\* users_collection.find_one({"username": username}) finds a document.
UsernameExists(name) == \E i \in DOMAIN users : users[i].username = name

\* The unique index on username is in place.
UniqueIndex(impl) == impl = "final"

\* register_user up to the validation: the find_one and, in final.py, the tests of
\* the lengths.
RegisterCheck(s, name, password_ok) ==
    /\ reg_pc[s] = "idle"
    /\ reg_calls < MaxRegistrations
    /\ reg_calls' = reg_calls + 1
    /\ reg_args' = [reg_args EXCEPT ![s] = [username |-> name, password_ok |-> password_ok]]
    /\ IF UsernameExists(name)
          \/ (reg_impl = "final" /\ (NameLength(name) < 3 \/ ~password_ok))
       THEN /\ reg_pc' = [reg_pc EXCEPT ![s] = "done"]
            /\ reg_ret' = [reg_ret EXCEPT ![s] = "failure"]
       ELSE /\ reg_pc' = [reg_pc EXCEPT ![s] = "checked"]
            /\ reg_ret' = [reg_ret EXCEPT ![s] = None]
    /\ UNCHANGED <<reg_impl, users>>
    /\ RegFrame

\* register_user from insert_one on: under the unique index a second document with
\* the username raises DuplicateKeyError, and final.py returns failure.
RegisterInsert(s) ==
    /\ reg_pc[s] = "checked"
    /\ IF UniqueIndex(reg_impl) /\ UsernameExists(reg_args[s].username)
       THEN /\ users' = users
            /\ reg_ret' = [reg_ret EXCEPT ![s] = "failure"]
       ELSE /\ users' = Append(users, [username |-> reg_args[s].username, by |-> s])
            /\ reg_ret' = [reg_ret EXCEPT ![s] = "success"]
    /\ reg_pc' = [reg_pc EXCEPT ![s] = "done"]
    /\ UNCHANGED <<reg_impl, reg_args, reg_calls>>
    /\ RegFrame

\* The page was drawn with the call's message; the session may register again.
RegisterDone(s) ==
    /\ reg_pc[s] = "done"
    /\ reg_pc' = [reg_pc EXCEPT ![s] = "idle"]
    /\ UNCHANGED <<reg_impl, users, reg_args, reg_ret, reg_calls>>
    /\ RegFrame

RegInit ==
    /\ McqInit /\ SecIdle /\ StatIdle /\ SessIdle /\ ApiIdle /\ HistIdle /\ AcctIdle /\ QdbIdle
    /\ reg_impl \in {"final", "app"}
    /\ users = <<>>
    /\ reg_pc = [s \in Sessions |-> "idle"]
    /\ reg_args = [s \in Sessions |-> NoArgs]
    /\ reg_ret = [s \in Sessions |-> None]
    /\ reg_calls = 0

RegNext ==
    \/ \E s \in Sessions, name \in Usernames, password_ok \in BOOLEAN :
          RegisterCheck(s, name, password_ok)
    \/ \E s \in Sessions : RegisterInsert(s)
    \/ \E s \in Sessions : RegisterDone(s)

SpecRegister == RegInit /\ [][RegNext]_vars

OneUserPerUsername ==
    \A i, j \in DOMAIN users : users[i].username = users[j].username => i = j

\* A call that ends while its username is in the collection returns failure and
\* leaves the collection as it is.
ExistingNameRefused ==
    \A s \in Sessions :
        (reg_pc[s] # "done" /\ reg_pc'[s] = "done" /\ UsernameExists(reg_args'[s].username))
            => (reg_ret'[s] = "failure" /\ users' = users)

\* C25: after any interleaving of register_user calls from concurrent sessions,
\* the users collection holds at most one user per username, and a registration
\* for a username that already exists returns failure and leaves the collection
\* unchanged.
C25_UniqueUsernames == []OneUserPerUsername /\ [][ExistingNameRefused]_vars

(***************************************************************************)
(* Specification SpecQuestions: the questions collection under             *)
(* save_questions_to_db (of questions parse_mcq_response returned),        *)
(* update_question driven by the edit form, and delete_question.           *)
(***************************************************************************)
MaxSaved == 2
MaxUpdates == 2

\* The texts whose parsed questions the administrator saves.
GeneratedTexts ==
    {ML1 \o <<"\n">> \o ML4 \o <<"\n">> \o ML5,
     ML1 \o <<"\n">> \o ML3 \o <<"\n">> \o ML4}

\* What the administrator may type into a Letter field.
FormLetters == {"a", "b", "e", ""}

QdbFrame ==
    UNCHANGED <<mcq_vars, sec_vars, stat_vars, sess_vars, api_vars, hist_vars, acct_vars, reg_vars>>

\* validate_question on a question parse_mcq_response returned: the three fields
\* are present, options is a list of dicts with letter and text.
validate_question(q) == TRUE

RECURSIVE InsertQuestions(_, _, _)
\* The loop of save_questions_to_db over valid_questions, ids from n on.
InsertQuestions(docs, valid_questions, n) ==
    IF valid_questions = <<>> THEN docs
    ELSE InsertQuestions(Append(docs, [id |-> n + 1,
                                       question |-> Head(valid_questions).question,
                                       options |-> Head(valid_questions).options,
                                       correct_option |-> Head(valid_questions).correct_option]),
                         Tail(valid_questions), n + 1)

\* save_questions_to_db(topic, questions) on the questions parsed from text.
SaveQuestionsToDb(text) ==
    LET generated == parse_mcq_response([shape |-> "text", text |-> text]).questions
        valid_questions == SelectSeq(generated, validate_question)
    IN  /\ generated # <<>>
        /\ valid_questions # <<>>
        /\ n_saved + Len(valid_questions) <= MaxSaved
        /\ question_docs' = InsertQuestions(question_docs, valid_questions, n_saved)
        /\ n_saved' = n_saved + Len(valid_questions)
        /\ UNCHANGED n_updates
        /\ QdbFrame

RECURSIVE FormCorrectOption(_, _, _, _)
\* The loop of the edit form over the options: correct_option starts as the stored
\* one and takes the Letter field of every option whose Correct box is checked.
FormCorrectOption(correct_option, letters, checks, i) ==
    IF i > Len(letters) THEN correct_option
    ELSE FormCorrectOption(IF checks[i] THEN letters[i] ELSE correct_option,
                           letters, checks, i + 1)

\* The widgets of the form have distinct keys (else Streamlit refuses to draw it).
FormDrawn(doc) ==
    \A i, j \in DOMAIN doc.options : doc.options[i].letter = doc.options[j].letter => i = j

\* update_question(question_id, question_text, options, correct_option): the
\* validation, then update_one.
update_question(docs, k, text_filled, options, correct_option) ==
    IF ~text_filled \/ options = <<>> \/ correct_option = "" THEN docs
    ELSE [docs EXCEPT ![k].options = options, ![k].correct_option = correct_option]

\* Update Question of the edit form of the k-th document, with the letters typed
\* and the boxes checked.
UpdateQuestionForm(k, letters, checks, text_filled) ==
    /\ k \in DOMAIN question_docs
    /\ FormDrawn(question_docs[k])
    /\ n_updates < MaxUpdates
    /\ LET doc == question_docs[k]
           options == [i \in DOMAIN doc.options |->
                          [letter |-> letters[i], text |-> doc.options[i].text]]
           correct_option == FormCorrectOption(doc.correct_option, letters, checks, 1)
       IN  question_docs' = update_question(question_docs, k, text_filled, options,
                                            correct_option)
    /\ n_updates' = n_updates + 1
    /\ UNCHANGED n_saved
    /\ QdbFrame

\* delete_question(question_id)
DeleteQuestion(k) ==
    /\ k \in DOMAIN question_docs
    /\ question_docs' = [i \in 1..(Len(question_docs) - 1) |->
                            IF i < k THEN question_docs[i] ELSE question_docs[i + 1]]
    /\ UNCHANGED <<n_saved, n_updates>>
    /\ QdbFrame

QdbInit ==
    /\ McqInit /\ SecIdle /\ StatIdle /\ SessIdle /\ ApiIdle /\ HistIdle /\ AcctIdle /\ RegIdle
    /\ QdbIdle

QdbNext ==
    \/ \E text \in GeneratedTexts : SaveQuestionsToDb(text)
    \/ \E k \in 1..MaxSaved, n \in 1..2 :
          \E letters \in [1..n -> FormLetters], checks \in [1..n -> BOOLEAN],
             text_filled \in BOOLEAN :
                /\ k \in DOMAIN question_docs
                /\ Len(question_docs[k].options) = n
                /\ UpdateQuestionForm(k, letters, checks, text_filled)
    \/ \E k \in 1..MaxSaved : DeleteQuestion(k)

SpecQuestions == QdbInit /\ [][QdbNext]_vars

\* C26: after any sequence of save_questions_to_db, update_question (driven by
\* the admin edit form) and delete_question, every question stored in the
\* questions collection has a correct_option equal to the letter of at least one
\* of its options.
C26_CorrectOptionAmongOptions ==
    \A k \in DOMAIN question_docs :
        \E i \in DOMAIN question_docs[k].options :
            question_docs[k].options[i].letter = question_docs[k].correct_option

(***************************************************************************)
(* Invariants of the session's quiz state.                                 *)
(***************************************************************************)
\* C27: in every reachable session state, show_explanations being true implies
\* quiz_score is set, and quiz_score being set implies current_quiz is set, over
\* all sequences of start_quiz, answer, submit_quiz, explanation toggle, cancel,
\* take-another-quiz and logout.
C27_QuizStateInvariant ==
    /\ show_explanations => quiz_score.set
    /\ quiz_score.set => current_quiz.active

\* app.py: the Show Explanations button of a scored quiz was pressed.
C27_Witness ==
    /\ sess_impl = "app"
    /\ show_explanations
    /\ quiz_score.set
    /\ current_quiz.active

(***************************************************************************)
(* The attempt record submit_quiz writes.                                  *)
(***************************************************************************)
\* submit_quiz has just inserted a record: the record against the quiz and the
\* answers of the session (the record's user_answers).
RecordIsScored ==
    Len(quiz_history') = Len(quiz_history) + 1 =>
        LET r == quiz_history'[Len(quiz_history')]
            right == {q \in 1..current_quiz.questions :
                        q \in DOMAIN user_answers /\ user_answers[q] = CorrectOption}
        IN  /\ r.total_questions = current_quiz.questions
            /\ 0 <= r.score /\ r.score <= r.total_questions
            /\ r.score = Cardinality(right)
            /\ IF r.total_questions = 0 THEN r.score_percentage = 0
               ELSE r.total_questions * r.score_percentage = 100 * r.score
            /\ 0 <= r.score_percentage /\ r.score_percentage <= 100

\* C28: every attempt record written by submit_quiz satisfies
\* 0 <= score <= total_questions, score equals the number of quiz questions whose
\* recorded answer equals the question's correct_option, and score_percentage
\* equals 100*score/total_questions (0 when total_questions is 0), hence lies in
\* [0,100].
C28_RecordIsScored == [][RecordIsScored]_vars

\* A record of a quiz of two questions, one of them answered right.
C28_Witness ==
    \E i \in DOMAIN quiz_history :
        /\ quiz_history[i].total_questions = 2
        /\ quiz_history[i].score = 1
        /\ quiz_history[i].score_percentage = 50

(***************************************************************************)
(* The answers of the current quiz in final.py.                            *)
(***************************************************************************)
\* While the quiz stays the current one, an answer recorded stays as it is.
AnswersKept ==
    (current_quiz.active /\ current_quiz' = current_quiz) =>
        \A q \in DOMAIN user_answers :
            q \in DOMAIN user_answers' /\ user_answers'[q] = user_answers[q]

\* submit_quiz ran (a record was inserted, or the score was set) only from a state
\* with an answer for every question and no score.
SubmitOnlyWhenComplete ==
    (Len(quiz_history') > Len(quiz_history) \/ (~quiz_score.set /\ quiz_score'.set)) =>
        /\ current_quiz.active
        /\ DOMAIN user_answers = 1..current_quiz.questions
        /\ ~quiz_score.set

\* C29: in final.py, once an answer is recorded for a question of the current
\* quiz it is never changed or removed until the quiz is cancelled, replaced by
\* another quiz, or the user logs out, and submit_quiz can be triggered only when
\* every question of the quiz has a recorded answer and no score exists yet.
C29_AnswersFinal ==
    [][sess_impl = "final" => (AnswersKept /\ SubmitOnlyWhenComplete)]_vars

\* final.py: a quiz of two questions was submitted with both answers on record.
C29_Witness ==
    /\ sess_impl = "final"
    /\ current_quiz.active /\ current_quiz.questions = 2
    /\ quiz_score.set
    /\ DOMAIN user_answers = {1, 2}
    /\ user_answers[1] # user_answers[2]

(***************************************************************************)
(* The lines the section loop buffers, against the result.                 *)
(***************************************************************************)
RECURSIVE LoopStateAfter(_, _)
\* The loop's variables after it has read lines.
LoopStateAfter(fn, lines) ==
    IF lines = <<>>
    THEN [sections |-> [k \in SectionKeys(fn) |-> <<>>], current_section |-> None,
          section_content |-> <<>>, raised |-> FALSE]
    ELSE SectionStep(fn, LoopStateAfter(fn, SubSeq(lines, 1, Len(lines) - 1)),
                     lines[Len(lines)])

\* The lines of the buffer after the k-th line, if a section is active then.
BufferedAt(fn, lines, k) ==
    LET st == LoopStateAfter(fn, SubSeq(lines, 1, k))
    IN  IF st.current_section = None THEN {}
        ELSE {<<st.current_section, st.section_content[i]>> : i \in DOMAIN st.section_content}

\* C30: every line that the section parser appends to the buffer of an active
\* section appears in the final result under that section's key, also when the
\* same section is entered more than once in the text (content stored by an
\* earlier visit is not discarded by a later one).
C30_BufferedLinesKept ==
    sec_pc = "done" =>
        \A k \in DOMAIN analysis_lines :
            \A p \in BufferedAt(sec_fn, analysis_lines, k) :
                \E i \in DOMAIN sections[p[1]] : sections[p[1]][i] = p[2]

====
